---- MODULE Spec2Model ----
(***************************************************************************)
(* The bet ledger and settlement engine of football-bet-tracker            *)
(* (src/app.py): the Dash callbacks add_bet, save_edit, confirm_delete,    *)
(* update_outcome and load_current_account acting on the client-side       *)
(* data-store (the in-memory ledger) and on the bets table of the          *)
(* database (the persisted ledger of the current account); the account     *)
(* callbacks acting on the accounts-store, the current-account-store, the  *)
(* account dropdown, the delete-account dialog and the accounts table.     *)
(*                                                                         *)
(* Units.  Money is counted in cents and odds in hundredths, so that       *)
(* round(x, 2) of the source is a real rounding of a finer quantity:       *)
(* bet_amount * odds is in 1/10000 and is rounded to the nearest cent.     *)
(* Stakes are whole cents.  The inputs avoid exact half cents, where the   *)
(* binary floating point of the source decides the direction.              *)
(*                                                                         *)
(* Dates are integers; datetime.now() is the local wall clock, which may   *)
(* repeat or step back, so an add draws its date from all of Dates.        *)
(***************************************************************************)
EXTENDS Integers, Sequences, FiniteSets, TLC

VARIABLES
    data,   \* dcc.Store 'data-store': the in-memory ledger, a sequence of wagers
    db,     \* table bets: in the specifications of one account its rows (the
            \* persisted ledger of that account), in the specifications of
            \* several accounts its rows by account_id
    last,   \* the callback that ran last, its inputs and how it returned
    data2,  \* the 'data-store' of a second browser session
    saves,  \* the calls of save_data whose transaction is open
    accounts_table,         \* table accounts, a set of rows
    accounts_store,         \* dcc.Store 'accounts-store', a list of accounts
    current_account_store,  \* dcc.Store 'current-account-store', an id or None
    account_dropdown,       \* value of 'account-dropdown', an id or None
    delete_account_modal    \* is_open of 'delete-account-modal'

\* what the ledger callbacks of one session leave alone
others ==
    <<data2, saves, accounts_table, accounts_store, current_account_store,
      account_dropdown, delete_account_modal>>

vars == <<data, db, last, others>>

-----------------------------------------------------------------------------
(* Bounds *)

\* the largest number of wagers a ledger holds in the model
MaxBets == 2
\* the largest ledger of the settlement specification
MaxSettleBets == 1

\* the dates datetime.now() returns: two instants, so that a wager is
\* dated before, with, or after another
Dates == {1, 2}

-----------------------------------------------------------------------------
(* Values *)

\* Python None / SQL NULL in the outcome column
None == "<None>"

\* selected_rows of the table: no row selected
NoSel == -1

\* row indices the user may have selected; an index is stale when the
\* ledger has become shorter since the row was selected
Selections == {NoSel} \cup (0..(MaxBets - 1))

SettleSelections == {NoSel} \cup (0..(MaxSettleBets - 1))

\* round(n / d) to the nearest integer, halves to even (d > 0)
RoundDiv(n, d) ==
    LET q == n \div d
        r == n % d
    IN  IF 2 * r < d THEN q
        ELSE IF 2 * r > d THEN q + 1
        ELSE IF q % 2 = 0 THEN q ELSE q + 1

\* round(bet_amount * odds, 2): cents times hundredths, to the nearest cent
RoundMul(bet_amount, odds) == RoundDiv(bet_amount * odds, 100)

-----------------------------------------------------------------------------
(* Selection parsing (the accumulator text box) *)

\* float(token): the numeric tokens of the model and their value in
\* hundredths; float() raises ValueError on every other token
FloatValue ==
    [tok \in {"1.8", "2.2", "3.5", "0", "-1.5",
              "1.80", "2.20", "3.50", "0.00", "-1.50"} |->
        CASE tok \in {"1.8", "1.80"} -> 180
          [] tok \in {"2.2", "2.20"} -> 220
          [] tok \in {"3.5", "3.50"} -> 350
          [] tok \in {"0", "0.00"} -> 0
          [] tok \in {"-1.5", "-1.50"} -> -150]

\* f"{odds:.2f}" of the odds of a selection
two_decimals(odds) ==
    CASE odds = 180 -> "1.80"
      [] odds = 220 -> "2.20"
      [] odds = 350 -> "3.50"
      [] odds = 0 -> "0.00"
      [] odds = -150 -> "-1.50"

\* line.split() of the match of a selection
split(match) ==
    CASE match = "Arsenal vs Chelsea" -> <<"Arsenal", "vs", "Chelsea">>
      [] match = "Spurs vs Leeds" -> <<"Spurs", "vs", "Leeds">>
      [] match = "" -> <<>>
      [] OTHER -> <<match>>

IsFloat(tok) == tok \in DOMAIN FloatValue

RECURSIVE JoinWords(_)
\* ' '.join(words)
JoinWords(words) ==
    IF words = <<>> THEN ""
    ELSE IF Len(words) = 1 THEN words[1]
    ELSE words[1] \o " " \o JoinWords(Tail(words))

RECURSIVE parse_selections(_)
\* a text is the sequence of its non-blank lines, a line the sequence of
\* its whitespace-separated words (line.split())
parse_selections(lines) ==
    IF lines = <<>> THEN <<>>
    ELSE LET words == Head(lines)
             n     == Len(words)
             rest  == parse_selections(Tail(lines))
         IN  IF n < 3 THEN rest
             ELSE IF ~IsFloat(words[n]) THEN rest
             ELSE <<[match      |-> JoinWords(SubSeq(words, 1, n - 2)),
                     prediction |-> words[n - 1],
                     odds       |-> FloatValue[words[n]]]>> \o rest

RECURSIVE total_odds(_)
\* reduce(operator.mul, [s['odds'] for s in selections], 1.0), in hundredths
total_odds(selections) ==
    IF selections = <<>> THEN 100
    ELSE (Head(selections).odds * total_odds(Tail(selections))) \div 100

-----------------------------------------------------------------------------
(* Ledger *)

RECURSIVE InsertByDate(_, _)
\* insert w after every row whose date is not later (a stable insertion)
InsertByDate(sorted, w) ==
    IF sorted = <<>> THEN <<w>>
    ELSE IF Head(sorted).date <= w.date
         THEN <<Head(sorted)>> \o InsertByDate(Tail(sorted), w)
         ELSE <<w>> \o sorted

RECURSIVE sort_values(_)
\* df.sort_values('date'): ascending, rows of equal date keep their order
\* (numpy sorts a run of up to 16 rows by insertion)
sort_values(df) ==
    IF df = <<>> THEN <<>>
    ELSE InsertByDate(sort_values(SubSeq(df, 1, Len(df) - 1)), df[Len(df)])

\* renumber_slips without its sort_values: rows numbered where they stand
renumber_slips_unsorted(df) ==
    [i \in 1..Len(df) |-> [df[i] EXCEPT !.slip_no = i]]

renumber_slips(df) ==
    IF df = <<>> THEN df
    ELSE LET sorted == sort_values(df)
         IN  [i \in 1..Len(sorted) |-> [sorted[i] EXCEPT !.slip_no = i]]

\* load_data(account_id): the rows of the account, renumbered
load_data(rows) == renumber_slips(rows)

\* save_data(df, account_id): delete the account's rows, insert df
save_data(df) == df

RECURSIVE max_slip(_)
\* df['slip_no'].max(), 0 for the empty frame
max_slip(df) ==
    IF df = <<>> THEN 0
    ELSE LET m == max_slip(Tail(df))
         IN  IF Head(df).slip_no > m THEN Head(df).slip_no ELSE m

\* drop taking the slip number of the row for its index label
drop_by_slip_no(df, idx) ==
    SubSeq(df, 1, idx + 1) \o SubSeq(df, idx + 3, Len(df))

\* df.drop(idx).reset_index(drop=True)
drop(df, idx) ==
    SubSeq(df, 1, idx) \o SubSeq(df, idx + 2, Len(df))

-----------------------------------------------------------------------------
(* Settlement *)

\* a reset storing the empty text of the outcome input for the outcome
pending_result_blank_outcome ==
    [valid |-> TRUE, outcome |-> "", result_amount |-> 0,
     profit_loss |-> 0, status |-> "Pending"]

\* outcome None, nothing paid, status Pending
pending_result ==
    [valid |-> TRUE, outcome |-> None, result_amount |-> 0,
     profit_loss |-> 0, status |-> "Pending"]

\* result_amount = round(bet_amount * odds, 2)
\* profit_loss = round(result_amount - bet_amount, 2); status = 'Win'
win_result(bet_amount, odds, new_outcome) ==
    LET result_amount == RoundMul(bet_amount, odds)
    IN  [valid |-> TRUE, outcome |-> new_outcome,
         result_amount |-> result_amount,
         profit_loss |-> result_amount - bet_amount, status |-> "Win"]

\* result_amount = 0.0; profit_loss = round(-bet_amount, 2); status = 'Loss'
loss_result(bet_amount, new_outcome) ==
    [valid |-> TRUE, outcome |-> new_outcome, result_amount |-> 0,
     profit_loss |-> 0 - bet_amount, status |-> "Loss"]

\* the early return "Invalid outcome for Accumulator. ..."
invalid_result ==
    [valid |-> FALSE, outcome |-> None, result_amount |-> 0,
     profit_loss |-> 0, status |-> "Pending"]

\* the chain of update_outcome with the comparison to the prediction put
\* before the keywords Win and Loss
settle_prediction_first(wager_type, bet_amount, odds, prediction, outcome_input) ==
    IF outcome_input = "Pending" THEN pending_result
    ELSE IF wager_type = "Accumulator" THEN
        IF outcome_input = "Win" THEN win_result(bet_amount, odds, outcome_input)
        ELSE IF outcome_input = "Loss" THEN loss_result(bet_amount, outcome_input)
        ELSE invalid_result
    ELSE
        IF outcome_input = prediction
        THEN win_result(bet_amount, odds, outcome_input)
        ELSE IF outcome_input = "Win" THEN win_result(bet_amount, odds, prediction)
        ELSE IF outcome_input = "Loss" THEN loss_result(bet_amount, "Loss")
        ELSE loss_result(bet_amount, outcome_input)

\* update_outcome, the chain on outcome_input (never empty here: the guard
\* of the callback has passed)
settle_update_outcome(wager_type, bet_amount, odds, prediction, outcome_input) ==
    IF outcome_input = "Pending" THEN pending_result
    ELSE IF wager_type = "Accumulator" THEN
        IF outcome_input = "Win" THEN win_result(bet_amount, odds, outcome_input)
        ELSE IF outcome_input = "Loss" THEN loss_result(bet_amount, outcome_input)
        ELSE invalid_result
    ELSE
        IF outcome_input = "Win" THEN win_result(bet_amount, odds, prediction)
        ELSE IF outcome_input = "Loss" THEN loss_result(bet_amount, "Loss")
        ELSE IF outcome_input = prediction
             THEN win_result(bet_amount, odds, outcome_input)
        ELSE loss_result(bet_amount, outcome_input)

\* the chain of save_edit without the refusal of an Accumulator outcome
\* other than Win and Loss
settle_save_edit_lenient(wager_type, bet_amount, odds, prediction, outcome_input) ==
    IF outcome_input = "Pending" \/ outcome_input = "" THEN pending_result
    ELSE IF outcome_input = "Win" THEN
        win_result(bet_amount, odds,
                   IF wager_type = "Accumulator" THEN outcome_input ELSE prediction)
    ELSE IF outcome_input = "Loss" THEN loss_result(bet_amount, "Loss")
    ELSE IF wager_type = "Single" /\ outcome_input = prediction
         THEN win_result(bet_amount, odds, outcome_input)
    ELSE loss_result(bet_amount, outcome_input)

\* the chain of save_edit testing only for the word Pending, as the chain
\* of update_outcome does
settle_save_edit_no_blank(wager_type, bet_amount, odds, prediction, outcome_input) ==
    settle_update_outcome(wager_type, bet_amount, odds, prediction, outcome_input)

\* save_edit, the chain on outcome_input, run on the values of the form
settle_save_edit(wager_type, bet_amount, odds, prediction, outcome_input) ==
    IF outcome_input = "Pending" \/ outcome_input = "" THEN pending_result
    ELSE IF wager_type = "Accumulator" THEN
        IF outcome_input = "Win" THEN win_result(bet_amount, odds, outcome_input)
        ELSE IF outcome_input = "Loss" THEN loss_result(bet_amount, outcome_input)
        ELSE invalid_result
    ELSE
        IF outcome_input = "Win" THEN win_result(bet_amount, odds, prediction)
        ELSE IF outcome_input = "Loss" THEN loss_result(bet_amount, "Loss")
        ELSE IF outcome_input = prediction
             THEN win_result(bet_amount, odds, outcome_input)
        ELSE loss_result(bet_amount, outcome_input)

\* df_new.at[idx, 'outcome'] = ..., 'result_amount', 'profit_loss', 'status'
set_outcome(row, s) ==
    [row EXCEPT !.outcome = s.outcome, !.result_amount = s.result_amount,
                !.profit_loss = s.profit_loss, !.status = s.status]

-----------------------------------------------------------------------------
(* Forms: the values of the add card and of the edit modal *)

\* read_form taking the odds of an accumulator from the odds field of the
\* form, as for a Single
read_form_odds_from_input(f) ==
    IF f.wager_type = "Single" THEN
        IF f.match = "" \/ f.prediction = "" \/ f.odds_input = 0
        THEN [res |-> "missing_fields"]
        ELSE [res |-> "ok", match |-> f.match, prediction |-> f.prediction,
              odds |-> f.odds_input,
              selections |-> <<[match |-> f.match, prediction |-> f.prediction,
                                odds |-> f.odds_input]>>]
    ELSE
        IF f.selections_text = <<>> THEN [res |-> "missing_selections"]
        ELSE LET selections == parse_selections(f.selections_text)
             IN  IF selections = <<>> THEN [res |-> "invalid_selections"]
                 ELSE [res |-> "ok",
                       match |-> "Accumulator (" \o ToString(Len(selections))
                                     \o " selections)",
                       prediction |-> "Accumulator Win",
                       odds |-> f.odds_input,
                       selections |-> selections]

\* read_form with the odds of a Single left out of its test for missing
\* fields
read_form_odds_optional(f) ==
    IF f.wager_type = "Single" THEN
        IF f.match = "" \/ f.prediction = ""
        THEN [res |-> "missing_fields"]
        ELSE [res |-> "ok", match |-> f.match, prediction |-> f.prediction,
              odds |-> f.odds_input,
              selections |-> <<[match |-> f.match, prediction |-> f.prediction,
                                odds |-> f.odds_input]>>]
    ELSE
        IF f.selections_text = <<>> THEN [res |-> "missing_selections"]
        ELSE LET selections == parse_selections(f.selections_text)
             IN  IF selections = <<>> THEN [res |-> "invalid_selections"]
                 ELSE [res |-> "ok",
                       match |-> "Accumulator (" \o ToString(Len(selections))
                                     \o " selections)",
                       prediction |-> "Accumulator Win",
                       odds |-> total_odds(selections),
                       selections |-> selections]

\* what a Single or Accumulator form makes of its fields, or why it is
\* refused: [res, match, prediction, odds, selections]
read_form(f) ==
    IF f.wager_type = "Single" THEN
        IF f.match = "" \/ f.prediction = "" \/ f.odds_input = 0
        THEN [res |-> "missing_fields"]
        ELSE [res |-> "ok", match |-> f.match, prediction |-> f.prediction,
              odds |-> f.odds_input,
              selections |-> <<[match |-> f.match, prediction |-> f.prediction,
                                odds |-> f.odds_input]>>]
    ELSE
        IF f.selections_text = <<>> THEN [res |-> "missing_selections"]
        ELSE LET selections == parse_selections(f.selections_text)
             IN  IF selections = <<>> THEN [res |-> "invalid_selections"]
                 ELSE [res |-> "ok",
                       match |-> "Accumulator (" \o ToString(Len(selections))
                                     \o " selections)",
                       prediction |-> "Accumulator Win",
                       odds |-> total_odds(selections),
                       selections |-> selections]

\* the text of the parser example: two lines parse, two are skipped
TextMixed ==
    << <<"Arsenal", "vs", "Chelsea", "Arsenal", "1.8">>,
       <<"garbage">>,
       <<"Tottenham", "Win", "abc">>,
       <<"Spurs", "Draw", "2.2">> >>

TextOne == << <<"Leeds", "Win", "3.5">> >>

TextGarbage == << <<"garbage">>, <<"Tottenham", "Win", "abc">> >>

\* a text whose only line ends in the number 0
TextZero == << <<"Leeds", "Win", "0">> >>

\* a text with a line ending in 0, one ending in a negative number, and
\* one ending in a positive number
TextSigned ==
    << <<"Leeds", "Win", "0">>,
       <<"Spurs", "Draw", "-1.5">>,
       <<"Arsenal", "vs", "Chelsea", "Arsenal", "1.8">> >>

Form(wager_type, match, prediction, selections_text, bet_amount, odds_input) ==
    [wager_type |-> wager_type, match |-> match, prediction |-> prediction,
     selections_text |-> selections_text, bet_amount |-> bet_amount,
     odds_input |-> odds_input]

\* a form with an empty number field (0) or a refused content
form_ok(f) == f.bet_amount # 0 /\ read_form(f).res = "ok"

FormSingle == Form("Single", "Arsenal vs Chelsea", "Arsenal", <<>>, 5000, 200)
FormSingleEven == Form("Single", "Spurs vs Leeds", "Arsenal", <<>>, 10000, 100)
FormSingleLoss == Form("Single", "Spurs vs Leeds", "Loss", <<>>, 5000, 200)
FormAccMixed == Form("Accumulator", "", "", TextMixed, 2, 200)
FormAccOne == Form("Accumulator", "", "", TextOne, 10000, 200)
FormNoPrediction == Form("Single", "Arsenal vs Chelsea", "", <<>>, 5000, 200)
FormNoAmount == Form("Single", "Arsenal vs Chelsea", "Arsenal", <<>>, 0, 200)
FormAccGarbage == Form("Accumulator", "", "", TextGarbage, 5000, 200)
FormAccEmpty == Form("Accumulator", "", "", <<>>, 5000, 200)
FormNoMatch == Form("Single", "", "Arsenal", <<>>, 5000, 200)
FormNoOdds == Form("Single", "Arsenal vs Chelsea", "Arsenal", <<>>, 5000, 0)
FormAccZero == Form("Accumulator", "", "", TextZero, 5000, 200)
FormAccSigned == Form("Accumulator", "", "", TextSigned, 5000, 200)
FormSingleChelsea == Form("Single", "Arsenal vs Chelsea", "Chelsea", <<>>, 2000, 350)
FormSingleOver == Form("Single", "Arsenal vs Chelsea", "Arsenal", <<>>, 5001, 200)

\* the forms and outcome declarations submitted in the ledger
\* specification; "" is the empty outcome input
Forms == {FormSingle, FormAccOne, FormNoPrediction}

Declarations == {"", "Pending", "Win", "Chelsea"}

\* the forms and outcome declarations submitted in the settlement
\* specification
SettleForms ==
    {FormSingle, FormSingleEven, FormSingleLoss, FormAccMixed, FormAccOne,
     FormNoPrediction, FormNoAmount, FormAccGarbage, FormAccEmpty}

SettleDeclarations == {"", "Pending", "Win", "Loss", "Arsenal", "Chelsea"}

\* the forms and outcome declarations submitted in the form specification:
\* Single forms complete and incomplete, and an accumulator
FormForms ==
    {FormSingle, FormSingleChelsea, FormNoMatch, FormNoPrediction, FormNoOdds,
     FormAccOne}

FormDeclarations == {"Win", "Arsenal"}

\* the forms submitted in the parsing specification: accumulator texts
\* well formed, partly malformed, malformed and empty, and a Single
ParseForms ==
    {FormAccMixed, FormAccZero, FormAccSigned, FormAccGarbage, FormAccEmpty,
     FormSingle}

-----------------------------------------------------------------------------
(* The callbacks, as functions of the store: [res, df].  res is "ok" when  *)
(* the callback saved and returned df as the new store; otherwise the      *)
(* callback returned no_update and df is the store it was given.           *)

\* pd.DataFrame(data).astype({...}) raises KeyError on a frame without
\* columns, which is what an empty store gives
astype_raises(d) == d = <<>>

new_bet(d, r, bet_amount, wager_type, now) ==
    [date |-> now, match |-> r.match, prediction |-> r.prediction,
     bet_amount |-> bet_amount, odds |-> r.odds, outcome |-> None,
     result_amount |-> 0, profit_loss |-> 0, wager_type |-> wager_type,
     selections |-> r.selections, slip_no |-> max_slip(d) + 1,
     status |-> "Pending"]

add_bet_run(d, f, now) ==
    IF f.bet_amount = 0 THEN [res |-> "no_return", df |-> d]
    ELSE LET r == read_form(f)
         IN  IF r.res # "ok" THEN [res |-> r.res, df |-> d]
             ELSE IF astype_raises(d) THEN [res |-> "exception", df |-> d]
             ELSE [res |-> "ok",
                   df  |-> renumber_slips(
                             d \o <<new_bet(d, r, f.bet_amount, f.wager_type, now)>>)]

\* the row of the edit before its outcome is written
edited_row(row, r, bet_amount, wager_type) ==
    [row EXCEPT !.wager_type = wager_type, !.match = r.match,
                !.prediction = r.prediction, !.bet_amount = bet_amount,
                !.odds = r.odds, !.selections = r.selections]

\* save_edit settling with the values the wager had before the edit
save_edit_run_settles_stored(d, f, outcome_input, sel) ==
    IF sel = NoSel \/ f.bet_amount = 0 THEN [res |-> "incomplete", df |-> d]
    ELSE IF astype_raises(d) \/ sel >= Len(d) THEN [res |-> "exception", df |-> d]
    ELSE LET r == read_form(f)
         IN  IF r.res # "ok" THEN [res |-> r.res, df |-> d]
             ELSE LET stored == d[sel + 1]
                      s == settle_save_edit(stored.wager_type, stored.bet_amount,
                                            stored.odds, stored.prediction,
                                            outcome_input)
                      row == edited_row(stored, r, f.bet_amount, f.wager_type)
                  IN  IF ~s.valid THEN [res |-> "invalid_outcome", df |-> d]
                      ELSE [res |-> "ok",
                            df  |-> renumber_slips(
                                      [d EXCEPT ![sel + 1] = set_outcome(row, s)])]

\* save_edit returning the edited frame with its "Invalid outcome" message
\* instead of no_update
save_edit_run_returns_edit(d, f, outcome_input, sel) ==
    IF sel = NoSel \/ f.bet_amount = 0 THEN [res |-> "incomplete", df |-> d]
    ELSE IF astype_raises(d) \/ sel >= Len(d) THEN [res |-> "exception", df |-> d]
    ELSE LET r == read_form(f)
         IN  IF r.res # "ok" THEN [res |-> r.res, df |-> d]
             ELSE LET s == settle_save_edit(f.wager_type, f.bet_amount, r.odds,
                                            r.prediction, outcome_input)
                      row == edited_row(d[sel + 1], r, f.bet_amount, f.wager_type)
                  IN  IF ~s.valid
                      THEN [res |-> "invalid_outcome",
                            df  |-> [d EXCEPT ![sel + 1] = row]]
                      ELSE [res |-> "ok",
                            df  |-> renumber_slips(
                                      [d EXCEPT ![sel + 1] = set_outcome(row, s)])]

save_edit_run(d, f, outcome_input, sel) ==
    IF sel = NoSel \/ f.bet_amount = 0 THEN [res |-> "incomplete", df |-> d]
    ELSE IF astype_raises(d) \/ sel >= Len(d) THEN [res |-> "exception", df |-> d]
    ELSE LET r == read_form(f)
         IN  IF r.res # "ok" THEN [res |-> r.res, df |-> d]
             ELSE LET s == settle_save_edit(f.wager_type, f.bet_amount, r.odds,
                                            r.prediction, outcome_input)
                      row == edited_row(d[sel + 1], r, f.bet_amount, f.wager_type)
                  IN  IF ~s.valid THEN [res |-> "invalid_outcome", df |-> d]
                      ELSE [res |-> "ok",
                            df  |-> renumber_slips(
                                      [d EXCEPT ![sel + 1] = set_outcome(row, s)])]

\* the text open_edit_modal puts in the selections box: a line
\* 'match prediction odds' for each selection, the odds with two decimals
selections_lines(selections) ==
    [i \in 1..Len(selections) |->
        split(selections[i].match)
            \o <<selections[i].prediction, two_decimals(selections[i].odds)>>]

\* open_edit_modal: the fields of the edit form filled from the selected
\* row; without a row, or when iloc raises, the dialog stays closed
open_edit_modal(d, sel) ==
    IF sel = NoSel \/ sel >= Len(d) THEN [res |-> "closed"]
    ELSE LET row == d[sel + 1]
         IN  [res |-> "open",
              form |-> IF row.wager_type = "Single"
                       THEN Form("Single", row.match, row.prediction, <<>>,
                                 row.bet_amount, row.odds)
                       ELSE Form(row.wager_type, "", "",
                                 selections_lines(row.selections),
                                 row.bet_amount, row.odds),
              outcome_val |-> IF row.outcome # None THEN row.outcome ELSE ""]

\* confirm_delete taking an index past the end for the last row
confirm_delete_run_drops_last(d, sel) ==
    IF sel = NoSel THEN [res |-> "failed", df |-> d]
    ELSE IF astype_raises(d) THEN [res |-> "exception", df |-> d]
    ELSE [res |-> "ok",
          df  |-> renumber_slips(drop(d, IF sel >= Len(d) THEN Len(d) - 1 ELSE sel))]

confirm_delete_run(d, sel) ==
    IF sel = NoSel THEN [res |-> "failed", df |-> d]
    ELSE IF astype_raises(d) \/ sel >= Len(d) THEN [res |-> "exception", df |-> d]
    ELSE [res |-> "ok", df |-> renumber_slips(drop(d, sel))]

\* update_outcome reading the odds of the first row (iloc[0]) for those of
\* the selected row
update_outcome_run_first_odds(d, outcome_input, sel) ==
    IF sel = NoSel \/ outcome_input = "" THEN [res |-> "ignored", df |-> d]
    ELSE IF astype_raises(d) \/ sel >= Len(d) THEN [res |-> "exception", df |-> d]
    ELSE LET row == d[sel + 1]
             s   == settle_update_outcome(row.wager_type, row.bet_amount, d[1].odds,
                                          row.prediction, outcome_input)
         IN  IF ~s.valid THEN [res |-> "invalid_outcome", df |-> d]
             ELSE [res |-> "ok",
                   df  |-> renumber_slips([d EXCEPT ![sel + 1] = set_outcome(row, s)])]

\* update_outcome taking the slip number of the selected row (one more
\* than its index) for the index to write at
update_outcome_run_at_slip_no(d, outcome_input, sel) ==
    IF sel = NoSel \/ outcome_input = "" THEN [res |-> "ignored", df |-> d]
    ELSE IF astype_raises(d) \/ sel + 1 >= Len(d)
         THEN [res |-> "exception", df |-> d]
    ELSE LET row == d[sel + 2]
             s   == settle_update_outcome(row.wager_type, row.bet_amount, row.odds,
                                          row.prediction, outcome_input)
         IN  IF ~s.valid THEN [res |-> "invalid_outcome", df |-> d]
             ELSE [res |-> "ok",
                   df  |-> renumber_slips([d EXCEPT ![sel + 2] = set_outcome(row, s)])]

update_outcome_run(d, outcome_input, sel) ==
    IF sel = NoSel \/ outcome_input = "" THEN [res |-> "ignored", df |-> d]
    ELSE IF astype_raises(d) \/ sel >= Len(d) THEN [res |-> "exception", df |-> d]
    ELSE LET row == d[sel + 1]
             s   == settle_update_outcome(row.wager_type, row.bet_amount, row.odds,
                                          row.prediction, outcome_input)
         IN  IF ~s.valid THEN [res |-> "invalid_outcome", df |-> d]
             ELSE [res |-> "ok",
                   df  |-> renumber_slips([d EXCEPT ![sel + 1] = set_outcome(row, s)])]

-----------------------------------------------------------------------------
(* Analytics of update_display *)

\* settled = df_new[df_new['outcome'].notna()]
settled(df) == SelectSeq(df, LAMBDA w : w.outcome # None)

\* len(df_new) - len(settled)
unsettled_bets(df) == Len(df) - Len(settled(df))

\* is_win counting the Singles only
is_win_single_only(w) ==
    w.wager_type = "Single" /\ w.outcome = w.prediction

\* is_win = mask_single_win | mask_acc_win
is_win(w) ==
    \/ w.wager_type = "Single" /\ w.outcome = w.prediction
    \/ w.wager_type = "Accumulator" /\ w.outcome = "Win"

\* wins = settled['is_win'].sum()
wins(df) == Len(SelectSeq(settled(df), is_win))

\* the counts of the summary.  win_rate = wins / settled_bets * 100 is kept
\* as the fraction <<numerator, denominator>>.  On the empty store astype
\* raises and the callback returns an empty summary.
summary(df) ==
    IF astype_raises(df) THEN [res |-> "exception"]
    ELSE LET settled_bets == Len(settled(df))
         IN  [res |-> "ok",
              total_bets |-> Len(df),
              settled_bets |-> settled_bets,
              unsettled_bets |-> unsettled_bets(df),
              wins |-> wins(df),
              losses |-> IF settled_bets > 0 THEN settled_bets - wins(df) ELSE 0,
              win_rate |-> IF settled_bets > 0 THEN <<wins(df) * 100, settled_bets>>
                           ELSE <<0, 1>>]

\* settled['result'] = (mask_single_win | mask_acc_win).astype(int)
result(rows) == [i \in 1..Len(rows) |-> IF is_win(rows[i]) THEN 1 ELSE 0]

RECURSIVE streak_group(_)
\* settled['streak_group'] = (result != result.shift()).cumsum(): the first
\* row differs from the missing value before it and opens group 1, every
\* change of result opens the next group
streak_group(res) ==
    IF res = <<>> THEN <<>>
    ELSE IF Len(res) = 1 THEN <<1>>
    ELSE LET before == streak_group(SubSeq(res, 1, Len(res) - 1))
             n      == Len(res)
         IN  Append(before,
                    before[n - 1] + (IF res[n] # res[n - 1] THEN 1 ELSE 0))

\* groupby('streak_group').agg({'result': ['first', 'count']}), columns
\* is_win and length
streaks(res) ==
    LET group == streak_group(res)
        first(g) == CHOOSE i \in 1..Len(res) :
                        group[i] = g /\ \A k \in 1..Len(res) : group[k] = g => i <= k
    IN  {[is_win |-> res[first(g)],
          streak_group |-> g,
          length |-> Cardinality({i \in 1..Len(res) : group[i] = g})] :
            g \in {group[i] : i \in 1..Len(res)}}

\* streaks[streaks['is_win'] == v]['length'].max(), 0 if there is none
max_length(rows, v) ==
    LET lengths == {s.length : s \in {t \in rows : t.is_win = v}}
    IN  IF lengths = {} THEN 0
        ELSE CHOOSE m \in lengths : \A x \in lengths : x <= m

\* get_streaks without the removal of the pending wagers
get_streaks_keeps_pending(df) ==
    IF df = <<>> THEN <<0, 0>>
    ELSE LET rows == streaks(result(sort_values(df)))
         IN  <<max_length(rows, 1), max_length(rows, 0)>>

\* get_streaks: <<max_win, max_loss>>
get_streaks(df) ==
    IF df = <<>> THEN <<0, 0>>
    ELSE IF settled(sort_values(df)) = <<>> THEN <<0, 0>>
    ELSE LET rows == streaks(result(settled(sort_values(df))))
         IN  <<max_length(rows, 1), max_length(rows, 0)>>

RECURSIVE total_profit(_)
\* total_profit = round(df_new['profit_loss'].sum(), 2), in cents
total_profit(df) ==
    IF df = <<>> THEN 0 ELSE Head(df).profit_loss + total_profit(Tail(df))

-----------------------------------------------------------------------------
(* Calendar heatmap of update_display *)

\* A calendar date is the integer year * 10000 + month * 100 + day, so
\* that the order of the integers is the order of the dates.

\* settled['month_year'] = settled['date'].dt.to_period('M').astype(str):
\* the label 'YYYY-MM', kept as <<year, month>>
month_year(date) == <<date \div 10000, (date \div 100) % 100>>

\* settled['day'] = settled['date'].dt.day
day(date) == date % 100

\* the order of the labels 'YYYY-MM' as strings
label_before(a, b) == a[1] < b[1] \/ (a[1] = b[1] /\ a[2] < b[2])

RECURSIVE sorted(_)
\* sorted(settled['month_year'].unique())
sorted(labels) ==
    IF labels = {} THEN <<>>
    ELSE LET first == CHOOSE a \in labels :
                          \A b \in labels : a = b \/ label_before(a, b)
         IN  <<first>> \o sorted(labels \ {first})

\* settled[month_year == month].groupby('day')['profit_loss'].sum()
\* .reindex(range(1, max_day+1), fill_value=0)
month_data(rows, month) ==
    [d \in 1..31 |->
        total_profit(SelectSeq(rows, LAMBDA w :
                        month_year(w.date) = month /\ day(w.date) = d))]

\* the heatmap built from rows: z and y of go.Heatmap
heatmap(rows) ==
    LET unique_months == sorted({month_year(rows[i].date) : i \in 1..Len(rows)})
    IN  [matrix |-> [m \in 1..Len(unique_months) |-> month_data(rows, unique_months[m])],
         month_labels |-> unique_months]

\* the calendar matrix over the pending wagers too
calendar_all_bets(df) ==
    heatmap(df)

\* the calendar matrix of update_display; no matrix when nothing is settled
calendar(df) ==
    heatmap(settled(df))

-----------------------------------------------------------------------------

(* Accounts *)

\* str(uuid.uuid4()): the ids an account can get
Ids == {"u1", "u2", "u3", "u4", "u5"}

\* a row of table accounts, an entry of the accounts store
AccountRow(id, name, initial_bankroll, max_bet_percent) ==
    [id |-> id, name |-> name, initial_bankroll |-> initial_bankroll,
     max_bet_percent |-> max_bet_percent]

\* the account inserted when table accounts is created
default_account == AccountRow("u1", "Default Account", 100000, 5)

\* load_accounts: SELECT * FROM accounts has no ORDER BY, the rows come in
\* any order the database gives
RECURSIVE load_accounts(_)
load_accounts(table) ==
    IF table = {} THEN {<<>>}
    ELSE UNION {{<<r>> \o rest : rest \in load_accounts(table \ {r})} : r \in table}

\* the ids of a list of accounts
StoreIds(accounts) == {accounts[i].id : i \in 1..Len(accounts)}

\* next((acc for acc in accounts if acc['id'] == account_id), None) finds
\* an account
has_account(accounts, account_id) == account_id \in StoreIds(accounts)

\* the account it finds: the first of the list with the id
find_account(accounts, account_id) ==
    accounts[CHOOSE i \in 1..Len(accounts) :
                 /\ accounts[i].id = account_id
                 /\ \A k \in 1..Len(accounts) : accounts[k].id = account_id => i <= k]

\* save_account: INSERT ... ON CONFLICT (name) DO UPDATE SET
\* initial_bankroll, max_bet_percent; the primary key id is not touched by the
\* update, and a row with the id of another row is refused
save_account(table, account) ==
    IF \E r \in table : r.name = account.name
    THEN {IF r.name = account.name
          THEN [r EXCEPT !.initial_bankroll = account.initial_bankroll,
                         !.max_bet_percent = account.max_bet_percent]
          ELSE r : r \in table}
    ELSE IF \E r \in table : r.id = account.id THEN table
    ELSE table \cup {account}

\* delete_account that leaves the bets of the account
delete_account_keeps_bets(table, bets, account_id) ==
    [accounts |-> {r \in table : r.id # account_id}, bets |-> bets]

\* delete_account: DELETE FROM bets WHERE account_id, DELETE FROM accounts
\* WHERE id, one commit
delete_account(table, bets, account_id) ==
    [accounts |-> {r \in table : r.id # account_id},
     bets |-> [a \in DOMAIN bets |-> IF a = account_id THEN <<>> ELSE bets[a]]]

\* save_data(df, account_id) on the bets of several accounts: the rows of
\* the account are deleted and df is inserted under account_id in one
\* transaction.  uuid.UUID(None) raises, and a row inserted under an id that
\* table accounts does not hold violates the foreign key; the exception is
\* caught and the transaction is not committed
save_data_to(bets, table, df, account_id) ==
    IF account_id = None THEN bets
    ELSE IF df # <<>> /\ ~\E r \in table : r.id = account_id THEN bets
    ELSE [bets EXCEPT ![account_id] = save_data(df)]

-----------------------------------------------------------------------------

(* State machine *)

\* what is recorded of a callback: its inputs (the selected row, the
\* outcome input, the wager type it read, whether its form was complete and
\* well formed), the status the selected row had, and how it returned
Called(op, sel, outcome_input, wager_type, ok, prior, res) ==
    [op |-> op, sel |-> sel, outcome_input |-> outcome_input,
     wager_type |-> wager_type, form_ok |-> ok, prior |-> prior, res |-> res]

\* a selection that addresses a row of d
InRange(d, sel) == sel # NoSel /\ sel < Len(d)

StatusAt(d, sel) == IF InRange(d, sel) THEN d[sel + 1].status ELSE ""

TypeAt(d, sel) == IF InRange(d, sel) THEN d[sel + 1].wager_type ELSE ""

\* a ledger found in the database at start-up: one pending Single
SeedBet ==
    [date |-> 1, match |-> "Arsenal vs Chelsea", prediction |-> "Arsenal",
     bet_amount |-> 5000, odds |-> 200, outcome |-> None, result_amount |-> 0,
     profit_loss |-> 0, wager_type |-> "Single",
     selections |-> <<[match |-> "Arsenal vs Chelsea", prediction |-> "Arsenal",
                       odds |-> 200]>>,
     slip_no |-> 1, status |-> "Pending"]

\* the module body: tables exist, df = load_data(default_account_id) fills
\* the store; a fresh database holds no bets
Init ==
    /\ db \in {<<>>, <<SeedBet>>}
    /\ data = load_data(db)
    /\ last = Called("init", NoSel, "", "", TRUE, "", "ok")
    /\ data2 = load_data(db)
    /\ saves = {}
    /\ accounts_table = {default_account}
    /\ accounts_store \in load_accounts(accounts_table)
    /\ current_account_store = accounts_store[1].id
    /\ account_dropdown = accounts_store[1].id
    /\ delete_account_modal = FALSE

\* the account dropdown fires: the store is reloaded from the database
load_current_account ==
    /\ data' = load_data(db)
    /\ last' = Called("load_current_account", NoSel, "", "", TRUE, "", "ok")
    /\ UNCHANGED <<db, others>>

add_bet(forms, dates, cap) ==
    \E f \in forms, now \in dates :
        \E r \in {add_bet_run(data, f, now)} :
            /\ Len(data) < cap
            /\ data' = r.df
            /\ db' = IF r.res = "ok" THEN save_data(r.df) ELSE db
            /\ last' = Called("add_bet", NoSel, "", f.wager_type, form_ok(f), "", r.res)
            /\ UNCHANGED others

save_edit(forms, declarations, selected) ==
    \E f \in forms, outcome_input \in declarations, sel \in selected :
        \E r \in {save_edit_run(data, f, outcome_input, sel)} :
            /\ data' = r.df
            /\ db' = IF r.res = "ok" THEN save_data(r.df) ELSE db
            /\ last' = Called("save_edit", sel, outcome_input, f.wager_type,
                             form_ok(f), StatusAt(data, sel), r.res)
            /\ UNCHANGED others

confirm_delete(selected) ==
    \E sel \in selected :
        \E r \in {confirm_delete_run(data, sel)} :
            /\ data' = r.df
            /\ db' = IF r.res = "ok" THEN save_data(r.df) ELSE db
            /\ last' = Called("confirm_delete", sel, "", TypeAt(data, sel), TRUE,
                             StatusAt(data, sel), r.res)
            /\ UNCHANGED others

update_outcome(declarations, selected) ==
    \E outcome_input \in declarations, sel \in selected :
        \E r \in {update_outcome_run(data, outcome_input, sel)} :
            /\ data' = r.df
            /\ db' = IF r.res = "ok" THEN save_data(r.df) ELSE db
            /\ last' = Called("update_outcome", sel, outcome_input,
                             TypeAt(data, sel), TRUE, StatusAt(data, sel), r.res)
            /\ UNCHANGED others

\* The ledger specification: ledgers of up to MaxBets wagers over Dates
Next ==
    \/ load_current_account
    \/ add_bet(Forms, Dates, MaxBets)
    \/ save_edit(Forms, Declarations, Selections)
    \/ confirm_delete(Selections)
    \/ update_outcome(Declarations, Selections)

Spec == Init /\ [][Next]_vars

\* The settlement specification: every form and declaration, on ledgers
\* of up to MaxSettleBets wagers
NextSettle ==
    \/ load_current_account
    \/ add_bet(SettleForms, {1}, MaxSettleBets)
    \/ save_edit(SettleForms, SettleDeclarations, SettleSelections)
    \/ confirm_delete(SettleSelections)
    \/ update_outcome(SettleDeclarations, SettleSelections)

SpecSettle == Init /\ [][NextSettle]_vars

-----------------------------------------------------------------------------
(* The statistics specification *)

MaxStatBets == 3

\* selected_rows[0] of the table: the index of a row of a ledger of up to
\* cap wagers
selected_rows(cap) == 0..(cap - 1)

\* Singles on Arsenal at either date, declared won or lost
StatForms == {FormSingle}

StatDeclarations == {"Arsenal", "Chelsea"}

NextStat ==
    \/ load_current_account
    \/ add_bet(StatForms, Dates, MaxStatBets)
    \/ update_outcome(StatDeclarations, selected_rows(MaxStatBets))

SpecStat == Init /\ [][NextStat]_vars

-----------------------------------------------------------------------------

(* The calendar specification: wagers at calendar dates *)

MaxCalendarBets == 3

\* the last day of a month, the first of the next and a day later in it
CalendarDates == {20240131, 20240201, 20240215}

\* the ledger found at start-up holds nothing or a wager of 31 January
InitCalendar ==
    /\ db \in {<<>>, <<[SeedBet EXCEPT !.date = 20240131]>>}
    /\ data = load_data(db)
    /\ last = Called("init", NoSel, "", "", TRUE, "", "ok")
    /\ data2 = load_data(db)
    /\ saves = {}
    /\ accounts_table = {default_account}
    /\ accounts_store \in load_accounts(accounts_table)
    /\ current_account_store = accounts_store[1].id
    /\ account_dropdown = accounts_store[1].id
    /\ delete_account_modal = FALSE

NextCalendar ==
    \/ load_current_account
    \/ add_bet(StatForms, CalendarDates, MaxCalendarBets)
    \/ update_outcome(StatDeclarations, selected_rows(MaxCalendarBets))

SpecCalendar == InitCalendar /\ [][NextCalendar]_vars

-----------------------------------------------------------------------------

(* The callbacks with their form and account recorded *)

\* an entry of the accounts store
Account(initial_bankroll, max_bet_percent) ==
    [initial_bankroll |-> initial_bankroll, max_bet_percent |-> max_bet_percent]

\* the default account: a bankroll of 1000.00, 5 percent of it at most a bet
DefaultAccount == Account(100000, 5)

\* current_bankroll = initial_bankroll + df_temp['profit_loss'].sum()
current_bankroll(account, d) == account.initial_bankroll + total_profit(d)

\* max_allowed_bet = (max_bet_percent / 100) * current_bankroll, here times
\* 100 (hundredths of a cent) so that no division is made
max_allowed_bet(account, d) ==
    account.max_bet_percent * current_bankroll(account, d)

\* the risk check with >= in the place of >
is_risky_inclusive(bet_amount, account, d) ==
    bet_amount * 100 >= max_allowed_bet(account, d)

\* is_risky = bet_amount > max_allowed_bet
is_risky(bet_amount, account, d) ==
    bet_amount * 100 > max_allowed_bet(account, d)

\* add_bet refusing a bet its risk check flags
add_bet_outputs_blocking(d, f, now, account) ==
    LET r == add_bet_run(d, f, now)
    IN  IF r.res = "ok" /\ is_risky(f.bet_amount, account, d)
        THEN [res |-> "risky", df |-> d, warning |-> TRUE]
        ELSE [res |-> r.res, df |-> r.df, warning |-> FALSE]

\* what add_bet returns: the store, and whether the risky-bet warning is
\* open (it is on a successful add of a risky bet, and on no other return)
add_bet_outputs(d, f, now, account) ==
    LET r == add_bet_run(d, f, now)
    IN  [res |-> r.res, df |-> r.df,
         warning |-> r.res = "ok" /\ is_risky(f.bet_amount, account, d)]

\* the record of a callback, extended with the form it read, the account
\* entry it read and the warning it returned
Recorded(called, f, account, warning) ==
    called @@ [form |-> f, account |-> account, warning |-> warning]

add_bet_recorded(forms, accounts, dates, cap) ==
    \E f \in forms, account \in accounts, now \in dates :
        \E r \in {add_bet_outputs(data, f, now, account)} :
            /\ Len(data) < cap
            /\ data' = r.df
            /\ db' = IF r.res = "ok" THEN save_data(r.df) ELSE db
            /\ last' = Recorded(Called("add_bet", NoSel, "", f.wager_type,
                                        form_ok(f), "", r.res),
                                 f, account, r.warning)
            /\ UNCHANGED others

save_edit_recorded(forms, accounts, declarations, selected) ==
    \E f \in forms, account \in accounts, outcome_input \in declarations,
       sel \in selected :
        \E r \in {save_edit_run(data, f, outcome_input, sel)} :
            /\ data' = r.df
            /\ db' = IF r.res = "ok" THEN save_data(r.df) ELSE db
            /\ last' = Recorded(Called("save_edit", sel, outcome_input,
                                        f.wager_type, form_ok(f),
                                        StatusAt(data, sel), r.res),
                                 f, account, FALSE)
            /\ UNCHANGED others

\* the largest ledger of the form specification
MaxFormBets == 2

FormSelections == {NoSel} \cup (0..(MaxFormBets - 1))

\* The form specification: Single forms complete and incomplete and an
\* accumulator, added, edited with a declared outcome and settled, on
\* ledgers of up to MaxFormBets wagers
NextForm ==
    \/ load_current_account
    \/ add_bet_recorded(FormForms, {DefaultAccount}, {1}, MaxFormBets)
    \/ save_edit_recorded(FormForms, {DefaultAccount}, FormDeclarations,
                          FormSelections)
    \/ update_outcome(FormDeclarations, FormSelections)
    \/ confirm_delete(FormSelections)

SpecForm == Init /\ [][NextForm]_vars

\* the largest ledger of the parsing specification
MaxParseBets == 2

ParseSelections == {NoSel} \cup (0..(MaxParseBets - 1))

\* The parsing specification: accumulator texts added and edited on
\* ledgers of up to MaxParseBets wagers
NextParse ==
    \/ load_current_account
    \/ add_bet_recorded(ParseForms, {DefaultAccount}, {1}, MaxParseBets)
    \/ save_edit_recorded(ParseForms, {DefaultAccount}, {""}, ParseSelections)
    \/ confirm_delete(ParseSelections)

SpecParse == Init /\ [][NextParse]_vars

\* the largest ledger of the risk specification
MaxRiskBets == 2

RiskSelections == {NoSel} \cup (0..(MaxRiskBets - 1))

\* stakes of 50.00 and 50.01
RiskForms == {FormSingle, FormSingleOver}

\* the default account, whose limit is 50.00 while nothing is won or lost,
\* and an account of 200.00 that may stake half of it
RiskAccounts == {DefaultAccount, Account(20000, 50)}

RiskDeclarations == {"Win", "Loss"}

RiskDates == {1}

\* The risk specification: bets at and just over the limit, added under
\* either account to ledgers whose wagers are won and lost
NextRisk ==
    \/ load_current_account
    \/ add_bet_recorded(RiskForms, RiskAccounts, RiskDates, MaxRiskBets)
    \/ update_outcome(RiskDeclarations, RiskSelections)
    \/ confirm_delete(RiskSelections)

SpecRisk == Init /\ [][NextRisk]_vars

-----------------------------------------------------------------------------
(* The account specification: several accounts, one session *)

\* the largest number of entries of the accounts store
MaxAccounts == 3

\* the largest ledger of the account specification
MaxAccountBets == 2

\* a second account found in the database at start-up, and its wager
savings_account == AccountRow("u2", "Savings", 50000, 10)

SavingsBet ==
    [SeedBet EXCEPT !.prediction = "Chelsea", !.bet_amount = 2000, !.odds = 350,
                    !.selections = <<[match |-> "Arsenal vs Chelsea",
                                      prediction |-> "Chelsea", odds |-> 350]>>]

\* the account callbacks recorded: the account they acted on and the number
\* of its persisted wagers before
CalledAccount(op, account_id, persisted, res) ==
    Called(op, NoSel, "", "", TRUE, "", res)
        @@ [account_id |-> account_id, persisted |-> persisted]

\* the number of wagers persisted under an id
Persisted(bets, account_id) ==
    IF account_id \in DOMAIN bets THEN Len(bets[account_id]) ELSE 0

\* str(uuid.uuid4()): an id that no account has had
uuid4(used) == CHOOSE id \in Ids : id \notin used

\* load_current_account(account_id, accounts): the data-store it returns
load_current_account_run(account_id, accounts, bets) ==
    IF account_id # None /\ has_account(accounts, account_id)
    THEN load_data(bets[account_id])
    ELSE <<>>

\* update_current_after_delete(is_open, accounts): the current-account-store
\* it returns, given the one before
update_current_after_delete(is_open, accounts, current) ==
    IF ~is_open
    THEN (IF accounts # <<>> THEN accounts[1].id ELSE None)
    ELSE current

\* the module body, on a database of two accounts with one wager each
InitAccounts ==
    /\ accounts_table = {default_account, savings_account}
    /\ accounts_store \in load_accounts(accounts_table)
    /\ db = [a \in Ids |-> IF a = default_account.id THEN <<SeedBet>>
                           ELSE IF a = savings_account.id THEN <<SavingsBet>>
                           ELSE <<>>]
    /\ current_account_store = accounts_store[1].id
    /\ account_dropdown = accounts_store[1].id
    /\ data = load_data(db[accounts_store[1].id])
    /\ data2 = <<>>
    /\ saves = {}
    /\ delete_account_modal = FALSE
    /\ last = CalledAccount("init", None, 0, "ok")

\* the user picks an option of the account dropdown, or clears it:
\* load_current_account fills the data-store and update_current_account
\* the current-account-store
select_account ==
    \E account_id \in StoreIds(accounts_store) \cup {None} :
        /\ account_id # account_dropdown
        /\ account_dropdown' = account_id
        /\ current_account_store' = account_id
        /\ data' = load_current_account_run(account_id, accounts_store, db)
        /\ last' = CalledAccount("load_current_account", account_id,
                                 Persisted(db, account_id), "ok")
        /\ UNCHANGED <<db, data2, saves, accounts_table, accounts_store, delete_account_modal>>

\* toggle_delete_account_modal on open-delete-account-modal-btn; the dialog
\* opens and update_current_after_delete(True) updates nothing
open_delete_account_modal ==
    /\ delete_account_modal' = TRUE
    /\ current_account_store' =
          update_current_after_delete(TRUE, accounts_store, current_account_store)
    /\ last' = CalledAccount("open_delete_account_modal", current_account_store,
                             Persisted(db, current_account_store), "ok")
    /\ UNCHANGED <<data, db, data2, saves, accounts_table, accounts_store,
                   account_dropdown>>

\* toggle_delete_account_modal on cancel-delete-account-btn, a button of
\* the open dialog; the dialog closes and update_current_after_delete(False)
\* runs
cancel_delete_account ==
    /\ delete_account_modal = TRUE
    /\ delete_account_modal' = FALSE
    /\ current_account_store' =
          update_current_after_delete(FALSE, accounts_store, current_account_store)
    /\ last' = CalledAccount("cancel_delete_account", current_account_store,
                             Persisted(db, current_account_store), "ok")
    /\ UNCHANGED <<data, db, data2, saves, accounts_table, accounts_store,
                   account_dropdown>>

\* toggle_delete_account_modal on confirm-delete-account-btn, a button of
\* the open dialog: with a current account, delete_account and the dialog
\* closes, new_accounts is dropped, and update_current_after_delete(False)
\* runs on the accounts store as it was; with none, the dialog stays open
confirm_delete_account ==
    /\ delete_account_modal = TRUE
    /\ IF current_account_store # None
       THEN \E r \in {delete_account(accounts_table, db, current_account_store)} :
                /\ accounts_table' = r.accounts
                /\ db' = r.bets
                /\ delete_account_modal' = FALSE
                /\ current_account_store' =
                      update_current_after_delete(FALSE, accounts_store,
                                                  current_account_store)
                /\ last' = CalledAccount("confirm_delete_account",
                                         current_account_store,
                                         Persisted(db, current_account_store),
                                         "deleted")
       ELSE /\ UNCHANGED <<accounts_table, db, delete_account_modal>>
            /\ current_account_store' =
                  update_current_after_delete(TRUE, accounts_store,
                                              current_account_store)
            /\ last' = CalledAccount("confirm_delete_account", None, 0, "ignored")
    /\ UNCHANGED <<data, data2, saves, accounts_store, account_dropdown>>

\* toggle_add_account_modal on add-account-btn with the three fields filled
add_account(names, bankrolls, percents, cap) ==
    /\ Len(accounts_store) < cap
    /\ \E name \in names, initial_bankroll \in bankrolls, max_bet_percent \in percents :
        \E new_account \in {AccountRow(uuid4(StoreIds(accounts_store)), name,
                                       initial_bankroll, max_bet_percent)} :
            /\ accounts_table' = save_account(accounts_table, new_account)
            /\ accounts_store' = Append(accounts_store, new_account)
            /\ last' = CalledAccount("add_account", new_account.id, 0, "ok")
                          @@ [name |-> name, account |-> new_account,
                              names_before |-> {r.name : r \in accounts_table}]
            /\ UNCHANGED <<data, db, data2, saves, current_account_store,
                           account_dropdown, delete_account_modal>>

\* update_settings with both values entered
update_settings(bankrolls, percents) ==
    \E initial_bankroll \in bankrolls, max_bet_percent \in percents :
        \E found \in {/\ current_account_store # None
                       /\ has_account(accounts_store, current_account_store)} :
            /\ IF found
               THEN \E updated \in {[find_account(accounts_store, current_account_store)
                                       EXCEPT !.initial_bankroll = initial_bankroll,
                                              !.max_bet_percent = max_bet_percent]} :
                        /\ accounts_store' =
                              [i \in 1..Len(accounts_store) |->
                                  IF accounts_store[i].id = current_account_store
                                  THEN updated ELSE accounts_store[i]]
                        /\ accounts_table' = save_account(accounts_table, updated)
                        /\ last' = CalledAccount("update_settings",
                                                 current_account_store, 0, "ok")
               ELSE /\ UNCHANGED <<accounts_store, accounts_table>>
                    /\ last' = CalledAccount("update_settings",
                                             current_account_store, 0, "ignored")
            /\ UNCHANGED <<data, db, data2, saves, current_account_store,
                           account_dropdown, delete_account_modal>>

\* add_bet with the account tests it makes before it reads the form
add_bet_for(d, f, now, account_id, accounts) ==
    IF account_id = None THEN [res |-> "no_account", df |-> d]
    ELSE IF f.bet_amount = 0 THEN [res |-> "no_return", df |-> d]
    ELSE IF ~has_account(accounts, account_id)
         THEN [res |-> "account_not_found", df |-> d]
    ELSE add_bet_run(d, f, now)

\* add_bet of the session: the ledger of the data-store with the new wager
\* is saved under the id of the current-account-store
add_bet_account(forms, dates, cap) ==
    \E f \in forms, now \in dates :
        \E r \in {add_bet_for(data, f, now, current_account_store, accounts_store)} :
            /\ Len(data) < cap
            /\ data' = r.df
            /\ db' = IF r.res = "ok"
                     THEN save_data_to(db, accounts_table, r.df, current_account_store)
                     ELSE db
            /\ last' = CalledAccount("add_bet", current_account_store,
                                     Persisted(db, current_account_store), r.res)
            /\ UNCHANGED <<data2, saves, accounts_table, accounts_store,
                           current_account_store, account_dropdown,
                           delete_account_modal>>

\* confirm_delete of the session, saved under the current-account-store
confirm_delete_account_bet(selected) ==
    \E sel \in selected :
        \E r \in {confirm_delete_run(data, sel)} :
            /\ data' = r.df
            /\ db' = IF r.res = "ok"
                     THEN save_data_to(db, accounts_table, r.df, current_account_store)
                     ELSE db
            /\ last' = CalledAccount("confirm_delete", current_account_store,
                                     Persisted(db, current_account_store), r.res)
            /\ UNCHANGED <<data2, saves, accounts_table, accounts_store,
                           current_account_store, account_dropdown,
                           delete_account_modal>>

\* update_outcome of the session, saved under the current-account-store
update_outcome_account(declarations, selected) ==
    \E outcome_input \in declarations, sel \in selected :
        \E r \in {update_outcome_run(data, outcome_input, sel)} :
            /\ data' = r.df
            /\ db' = IF r.res = "ok"
                     THEN save_data_to(db, accounts_table, r.df, current_account_store)
                     ELSE db
            /\ last' = CalledAccount("update_outcome", current_account_store,
                                     Persisted(db, current_account_store), r.res)
            /\ UNCHANGED <<data2, saves, accounts_table, accounts_store,
                           current_account_store, account_dropdown,
                           delete_account_modal>>

\* save_edit of the session, saved under the current-account-store
save_edit_account(forms, declarations, selected) ==
    \E f \in forms, outcome_input \in declarations, sel \in selected :
        \E r \in {save_edit_run(data, f, outcome_input, sel)} :
            /\ data' = r.df
            /\ db' = IF r.res = "ok"
                     THEN save_data_to(db, accounts_table, r.df, current_account_store)
                     ELSE db
            /\ last' = CalledAccount("save_edit", current_account_store,
                                     Persisted(db, current_account_store), r.res)
            /\ UNCHANGED <<data2, saves, accounts_table, accounts_store,
                           current_account_store, account_dropdown,
                           delete_account_modal>>

\* the names and settings entered in the account dialogs
AccountNames == {"Savings", "Holiday"}

AccountBankrolls == {20000}

AccountPercents == {50}

NextAccounts ==
    \/ select_account
    \/ open_delete_account_modal
    \/ cancel_delete_account
    \/ confirm_delete_account
    \/ add_account(AccountNames, AccountBankrolls, AccountPercents, MaxAccounts)
    \/ update_settings(AccountBankrolls, AccountPercents)
    \/ add_bet_account(StatForms, {1}, MaxAccountBets)
    \/ confirm_delete_account_bet(selected_rows(MaxAccountBets))

SpecAccounts == InitAccounts /\ [][NextAccounts]_vars

-----------------------------------------------------------------------------

(* The owner specification: the accounts of start-up, every ledger callback *)

\* the largest ledger of the owner specification
MaxOwnerBets == 2

OwnerDeclarations == {"Arsenal"}

NextOwner ==
    \/ select_account
    \/ open_delete_account_modal
    \/ cancel_delete_account
    \/ confirm_delete_account
    \/ add_bet_account(StatForms, {1}, MaxOwnerBets)
    \/ save_edit_account(StatForms, OwnerDeclarations, selected_rows(MaxOwnerBets))
    \/ confirm_delete_account_bet(selected_rows(MaxOwnerBets))
    \/ update_outcome_account(OwnerDeclarations, selected_rows(MaxOwnerBets))

SpecOwner == InitAccounts /\ [][NextOwner]_vars

-----------------------------------------------------------------------------

(* The edit specification: the edit form saved as it was filled *)

\* the largest ledger of the edit specification
MaxEditBets == 2

\* Singles predicting a team and the word Loss, and an accumulator
EditForms == {FormSingle, FormSingleLoss, FormAccOne}

EditDeclarations == {"Win", "Loss", "Chelsea"}

\* edit-bet-btn then save-edit-btn: open_edit_modal fills the form from
\* the selected row and save_edit reads the fields as they were filled
save_edit_prefilled(selected) ==
    \E sel \in selected :
        \E o \in {open_edit_modal(data, sel)} :
            /\ o.res = "open"
            /\ \E r \in {save_edit_run(data, o.form, o.outcome_val, sel)} :
                   /\ data' = r.df
                   /\ db' = IF r.res = "ok" THEN save_data(r.df) ELSE db
                   /\ last' = Called("save_edit", sel, o.outcome_val,
                                     o.form.wager_type, form_ok(o.form),
                                     StatusAt(data, sel), r.res)
                                 @@ [form |-> o.form]
                   /\ UNCHANGED others

NextEdit ==
    \/ load_current_account
    \/ add_bet(EditForms, Dates, MaxEditBets)
    \/ update_outcome(EditDeclarations, selected_rows(MaxEditBets))
    \/ save_edit_prefilled(selected_rows(MaxEditBets))

SpecEdit == Init /\ [][NextEdit]_vars

-----------------------------------------------------------------------------

(* The save specification: the database may refuse a save *)

\* where save_data raises: nowhere, at the DELETE of the rows of the
\* account, or at the insertion of df_save after the DELETE was executed
SaveFailures == {"none", "delete", "insert"}

\* save_data on a connection that commits each statement
save_data_run_autocommit(rows, df, failure) ==
    IF failure = "none" THEN save_data(df)
    ELSE IF failure = "insert" THEN <<>>
    ELSE rows

\* save_data(df, account_id) on the rows of the account: DELETE and
\* to_sql run in the transaction the connection begins, committed by
\* conn.commit(); an exception leaves the with block before the commit, the
\* connection is closed and the transaction rolled back, and the exception
\* is caught
save_data_run(rows, df, failure) ==
    IF failure = "none" THEN save_data(df) ELSE rows

\* the record of a mutation with its save: where the save failed, and
\* whether the database was behind the store before
Saving(called, failure, behind) ==
    called @@ [failure |-> failure, behind |-> behind]

add_bet_saving(forms, dates, cap) ==
    \E f \in forms, now \in dates, failure \in SaveFailures :
        \E r \in {add_bet_run(data, f, now)} :
            /\ Len(data) < cap
            /\ r.res = "ok" \/ failure = "none"
            /\ data' = r.df
            /\ db' = IF r.res = "ok" THEN save_data_run(db, r.df, failure) ELSE db
            /\ last' = Saving(Called("add_bet", NoSel, "", f.wager_type, form_ok(f),
                                     "", r.res), failure, db # data)
            /\ UNCHANGED others

save_edit_saving(forms, declarations, selected) ==
    \E f \in forms, outcome_input \in declarations, sel \in selected,
       failure \in SaveFailures :
        \E r \in {save_edit_run(data, f, outcome_input, sel)} :
            /\ r.res = "ok" \/ failure = "none"
            /\ data' = r.df
            /\ db' = IF r.res = "ok" THEN save_data_run(db, r.df, failure) ELSE db
            /\ last' = Saving(Called("save_edit", sel, outcome_input, f.wager_type,
                                     form_ok(f), StatusAt(data, sel), r.res),
                              failure, db # data)
            /\ UNCHANGED others

confirm_delete_saving(selected) ==
    \E sel \in selected, failure \in SaveFailures :
        \E r \in {confirm_delete_run(data, sel)} :
            /\ r.res = "ok" \/ failure = "none"
            /\ data' = r.df
            /\ db' = IF r.res = "ok" THEN save_data_run(db, r.df, failure) ELSE db
            /\ last' = Saving(Called("confirm_delete", sel, "", TypeAt(data, sel),
                                     TRUE, StatusAt(data, sel), r.res),
                              failure, db # data)
            /\ UNCHANGED others

update_outcome_saving(declarations, selected) ==
    \E outcome_input \in declarations, sel \in selected, failure \in SaveFailures :
        \E r \in {update_outcome_run(data, outcome_input, sel)} :
            /\ r.res = "ok" \/ failure = "none"
            /\ data' = r.df
            /\ db' = IF r.res = "ok" THEN save_data_run(db, r.df, failure) ELSE db
            /\ last' = Saving(Called("update_outcome", sel, outcome_input,
                                     TypeAt(data, sel), TRUE, StatusAt(data, sel),
                                     r.res), failure, db # data)
            /\ UNCHANGED others

\* the largest ledger of the save specification
MaxSaveBets == 2

SaveForms == {FormSingle, FormNoPrediction}

SaveDeclarations == {"Arsenal", "Pending"}

NextSave ==
    \/ load_current_account
    \/ add_bet_saving(SaveForms, {1}, MaxSaveBets)
    \/ save_edit_saving(SaveForms, SaveDeclarations, selected_rows(MaxSaveBets))
    \/ confirm_delete_saving(selected_rows(MaxSaveBets))
    \/ update_outcome_saving(SaveDeclarations, selected_rows(MaxSaveBets))

SpecSave == Init /\ [][NextSave]_vars

-----------------------------------------------------------------------------

(* The session specification: two sessions on the ledger of one account *)

\* Each callback runs in a request thread of its own (app.run serves
\* threaded), so the calls of save_data of two sessions may overlap.  Each
\* runs DELETE, to_sql and commit in a transaction of the default isolation
\* of PostgreSQL, read committed: the DELETE acts on the rows committed when
\* it starts, waits for a transaction that has deleted them, and then skips
\* them; it never sees the rows the other transaction inserted.  A save
\* that another save committed over, between its DELETE and its commit,
\* therefore deletes nothing and adds its rows to those of the other.

Sessions == {1, 2}

\* the largest ledger of the session specification
MaxSessionBets == 2

\* the data-store of a session
store(s) == IF s = 1 THEN data ELSE data2

\* a call of save_data(df_new, account_id) at its DELETE
save_begins(s, df) == [session |-> s, df |-> df, overlapped |-> FALSE]

\* no callback of the session is running
idle(s) == \A t \in saves : t.session # s

\* what is recorded of a callback of a session
CalledIn(s, op, res, df) ==
    Called(op, NoSel, "", "", TRUE, "", res) @@ [session |-> s, df |-> df]

\* a callback of session s came to r: with a ledger to save its save_data
\* begins, else it returns and the stores stay
session_runs(s, op, r) ==
    /\ idle(s)
    /\ Len(db) <= MaxSessionBets
    /\ saves' = IF r.res = "ok" THEN saves \cup {save_begins(s, r.df)} ELSE saves
    /\ last' = CalledIn(s, op, r.res, r.df)
    /\ UNCHANGED <<data, data2, db, accounts_table, accounts_store, current_account_store,
                 account_dropdown, delete_account_modal>>

session_add_bet(forms, dates, cap) ==
    \E s \in Sessions, f \in forms, now \in dates :
        /\ Len(store(s)) < cap
        /\ session_runs(s, "add_bet", add_bet_run(store(s), f, now))

session_update_outcome(declarations, selected) ==
    \E s \in Sessions, outcome_input \in declarations, sel \in selected :
        session_runs(s, "update_outcome", update_outcome_run(store(s), outcome_input, sel))

session_confirm_delete(selected) ==
    \E s \in Sessions, sel \in selected :
        session_runs(s, "confirm_delete", confirm_delete_run(store(s), sel))

\* the rows of the account after the commit of the save t
save_commits(t) ==
    IF t.overlapped THEN db \o save_data(t.df) ELSE save_data(t.df)

\* a save commits and its callback returns df_new to the data-store of its
\* session; every other open save has been committed over
save_data_commit ==
    \E t \in saves :
        /\ db' = save_commits(t)
        /\ saves' = {[u EXCEPT !.overlapped = TRUE] : u \in saves \ {t}}
        /\ data' = IF t.session = 1 THEN t.df ELSE data
        /\ data2' = IF t.session = 2 THEN t.df ELSE data2
        /\ last' = CalledIn(t.session, "save_data", "ok", t.df)
                      @@ [overlapped |-> t.overlapped]
        /\ UNCHANGED <<accounts_table, accounts_store, current_account_store,
                 account_dropdown, delete_account_modal>>

\* the page of a session is loaded again
session_load ==
    \E s \in Sessions :
        /\ idle(s)
        /\ data' = IF s = 1 THEN load_data(db) ELSE data
        /\ data2' = IF s = 2 THEN load_data(db) ELSE data2
        /\ last' = CalledIn(s, "load_current_account", "ok", load_data(db))
        /\ UNCHANGED <<db, saves, accounts_table, accounts_store, current_account_store,
                 account_dropdown, delete_account_modal>>

NextSessions ==
    \/ session_load
    \/ session_add_bet(StatForms, {1, 2}, MaxSessionBets)
    \/ session_update_outcome(OwnerDeclarations, selected_rows(MaxSessionBets))
    \/ session_confirm_delete(selected_rows(MaxSessionBets))
    \/ save_data_commit

SpecSessions == Init /\ [][NextSessions]_vars

-----------------------------------------------------------------------------

(* Claims *)

\* the rows of a ledger
Rows(df) == {df[i] : i \in 1..Len(df)}

\* r is x / 100 rounded to a nearest integer
IsRounded(r, x) == 100 * r - 50 <= x /\ x <= 100 * r + 50

\* C1: after every add, edit, outcome-update or delete, in the store and
\* in the database, the slip numbers of the ledger are exactly 1..N for N
\* wagers, and a wager with a smaller slip number has no later date.
C1_SlipNumbering ==
    \A df \in {data, db} :
        /\ {w.slip_no : w \in Rows(df)} = 1..Len(df)
        /\ \A i, j \in 1..Len(df) :
               df[i].slip_no < df[j].slip_no <=>
                   (i < j /\ df[i].date <= df[j].date)

\* an add has filled the ledger and the rows carry different dates
C1_Witness ==
    /\ last.op = "add_bet" /\ last.res = "ok"
    /\ Len(data) = MaxBets
    /\ data[1].date < data[Len(data)].date
    /\ db = data

\* C2: for every wager of the ledger, status is Pending exactly when the
\* outcome is null, and a settled wager has status Win exactly when its
\* profit_loss is positive.
C2_StatusFollowsProfit ==
    \A w \in Rows(data) :
        /\ w.status = "Pending" <=> w.outcome = None
        /\ w.outcome # None => (w.status = "Win" <=> w.profit_loss > 0)

\* the last callback settled or edited a wager it was validly asked to:
\* a row selected that exists, and (for an edit) a complete form
SettleRequest ==
    /\ last.op \in {"update_outcome", "save_edit"}
    /\ InRange(data, last.sel)
    /\ last.form_ok

\* the wager the last callback addressed, as the ledger holds it now
\* (an edit or an outcome update leaves every date and so every place alone)
Addressed == data[last.sel + 1]

\* a wager paid as won: the stake times the odds to the nearest cent
PaidAsWin(w) ==
    /\ w.status = "Win"
    /\ IsRounded(w.result_amount, w.bet_amount * w.odds)
    /\ w.profit_loss = w.result_amount - w.bet_amount

\* a wager paid as lost: nothing returned, the stake lost
PaidAsLoss(w) ==
    /\ w.status = "Loss"
    /\ w.result_amount = 0
    /\ w.profit_loss = 0 - w.bet_amount

\* a wager reset to pending
IsReset(w) ==
    /\ w.outcome = None
    /\ w.result_amount = 0
    /\ w.profit_loss = 0
    /\ w.status = "Pending"

\* C3: a Single wager given a declaration other than Pending or empty is
\* settled: Win stores the prediction as outcome and pays as a win; Loss
\* stores "Loss" and pays as a loss; a declaration equal to the prediction is
\* stored and pays as a win; any other text is stored verbatim and pays as a
\* loss.
C3_SingleSettlement ==
    (/\ SettleRequest
     /\ last.wager_type = "Single"
     /\ last.outcome_input \notin {"", "Pending"}) =>
        /\ last.res = "ok"
        /\ Addressed.wager_type = "Single"
        /\ CASE last.outcome_input = "Win" ->
                    Addressed.outcome = Addressed.prediction /\ PaidAsWin(Addressed)
             [] last.outcome_input = "Loss" ->
                    Addressed.outcome = "Loss" /\ PaidAsLoss(Addressed)
             [] last.outcome_input \notin {"Win", "Loss"}
                /\ last.outcome_input = Addressed.prediction ->
                    Addressed.outcome = last.outcome_input /\ PaidAsWin(Addressed)
             [] OTHER ->
                    Addressed.outcome = last.outcome_input /\ PaidAsLoss(Addressed)

\* a Single predicted "Arsenal" at 50.00 and declared "Chelsea": outcome
\* "Chelsea", nothing returned, 50.00 lost
C3_Witness ==
    /\ SettleRequest
    /\ last.op = "update_outcome"
    /\ last.wager_type = "Single"
    /\ last.outcome_input = "Chelsea"
    /\ Addressed.prediction = "Arsenal"
    /\ Addressed.outcome = "Chelsea"
    /\ Addressed.profit_loss = -5000
    /\ Addressed.status = "Loss"

\* C4: an Accumulator wager given a declaration other than Pending or empty
\* accepts only Win (outcome "Win", paid as a win) and Loss (outcome "Loss",
\* paid as a loss); every other text is refused as an invalid outcome.
C4_AccumulatorSettlement ==
    (/\ SettleRequest
     /\ last.wager_type = "Accumulator"
     /\ last.outcome_input \notin {"", "Pending"}) =>
        CASE last.outcome_input = "Win" ->
                 /\ last.res = "ok"
                 /\ Addressed.wager_type = "Accumulator"
                 /\ Addressed.outcome = "Win" /\ PaidAsWin(Addressed)
          [] last.outcome_input = "Loss" ->
                 /\ last.res = "ok"
                 /\ Addressed.wager_type = "Accumulator"
                 /\ Addressed.outcome = "Loss" /\ PaidAsLoss(Addressed)
          [] OTHER -> last.res = "invalid_outcome"

\* an accumulator of 100.00 at 3.50 declared won: 350.00 returned, 250.00
\* of profit
C4_Witness ==
    /\ SettleRequest
    /\ last.wager_type = "Accumulator"
    /\ last.outcome_input = "Win"
    /\ last.res = "ok"
    /\ Addressed.bet_amount = 10000
    /\ Addressed.odds = 350
    /\ Addressed.result_amount = 35000
    /\ Addressed.profit_loss = 25000

\* C5: when an outcome update or an edit is refused for an invalid
\* Accumulator outcome, the in-memory ledger and the persisted wagers are
\* exactly what they were before, the fields submitted with the edit
\* included.
C5_InvalidOutcomeAborts ==
    [][last'.res = "invalid_outcome" => (data' = data /\ db' = db)]_vars

\* an edit turning the stored Single into an accumulator, with new stake and
\* odds, was refused for its outcome "Chelsea"
C5_Witness ==
    /\ last.op = "save_edit"
    /\ last.res = "invalid_outcome"
    /\ last.form_ok
    /\ last.wager_type = "Accumulator"
    /\ last.outcome_input = "Chelsea"
    /\ InRange(data, last.sel)
    /\ Addressed.wager_type = "Single"
    /\ db = data

\* C6: declaring "Pending" on a wager of either type and in any state sets
\* outcome null, result_amount 0, profit_loss 0 and status Pending; the
\* wager is then outside the settled subset of the analytics and adds
\* nothing to the total profit.
C6_PendingResets ==
    (SettleRequest /\ last.outcome_input = "Pending") =>
        /\ last.res = "ok"
        /\ IsReset(Addressed)
        /\ Addressed \notin Rows(settled(data))
        /\ total_profit(data) = total_profit(drop(data, last.sel))

\* a wager that was won has been reset by an outcome update
C6_Witness ==
    /\ SettleRequest
    /\ last.op = "update_outcome"
    /\ last.outcome_input = "Pending"
    /\ last.prior = "Win"
    /\ last.res = "ok"
    /\ Addressed.status = "Pending"

\* C7 as stated: an empty outcome declaration applied to a settled wager,
\* by an outcome update or by an edit, resets the wager.
C7_EmptyDeclarationResets ==
    (/\ SettleRequest
     /\ last.outcome_input = ""
     /\ last.prior \in {"Win", "Loss"}) =>
        IsReset(Addressed)

\* C7: an empty outcome declaration applied to a settled wager resets it in
\* the edit operation, and is ignored by the outcome-update operation, which
\* leaves the ledger and the persisted wagers as they were.
C7_EmptyDeclaration ==
    [][(/\ last'.op \in {"update_outcome", "save_edit"}
        /\ InRange(data, last'.sel)
        /\ last'.form_ok
        /\ last'.outcome_input = ""
        /\ last'.prior \in {"Win", "Loss"}) =>
            IF last'.op = "save_edit"
            THEN /\ last'.res = "ok"
                 /\ IsReset(data'[last'.sel + 1])
                 /\ db' = data'
            ELSE /\ last'.res = "ignored"
                 /\ data' = data
                 /\ db' = db]_vars

\* an outcome update with an empty declaration left a won wager won
C7_Witness ==
    /\ last.op = "update_outcome"
    /\ last.outcome_input = ""
    /\ last.prior = "Win"
    /\ last.res = "ignored"
    /\ InRange(data, last.sel)
    /\ Addressed.status = "Win"

\* a wager without its slip number
NoSlip(w) == [w EXCEPT !.slip_no = 0]

\* C8: an outcome update changes only outcome, result_amount, profit_loss
\* and status of the addressed wager: its date, wager_type, match,
\* prediction, bet_amount, odds and selections (and its place) stay, and
\* every other wager of the ledger is unchanged in all fields.
C8_OutcomeUpdateFrame ==
    [][(last'.op = "update_outcome" /\ last'.res = "ok") =>
        /\ InRange(data, last'.sel)
        /\ Len(data') = Len(data)
        /\ \A j \in 1..Len(data) :
               IF j = last'.sel + 1
               THEN data'[j] = [data[j] EXCEPT
                                    !.outcome = data'[j].outcome,
                                    !.result_amount = data'[j].result_amount,
                                    !.profit_loss = data'[j].profit_loss,
                                    !.status = data'[j].status]
               ELSE data'[j] = data[j]]_vars

\* the first of two wagers was settled as won by an outcome update
C8_Witness ==
    /\ last.op = "update_outcome"
    /\ last.res = "ok"
    /\ last.sel = 0
    /\ last.outcome_input = "Win"
    /\ Len(data) = MaxBets
    /\ data[1].status = "Win"

\* C9 as stated: on every ledger, the empty one included, an add with all
\* required fields present yields exactly one more wager, the new one
\* pending with nothing paid, the others with their fields other than
\* slip_no, and the new ledger is persisted.
C9_ValidAddGrowsLedger ==
    [][(last'.op = "add_bet" /\ last'.form_ok) =>
        /\ Len(data') = Len(data) + 1
        /\ \E k \in 1..Len(data') :
               /\ IsReset(data'[k])
               /\ \A j \in 1..Len(data) :
                      NoSlip(data'[IF j < k THEN j ELSE j + 1]) = NoSlip(data[j])
        /\ db' = data']_vars

\* the same on the ledgers that hold a wager already
C9_ValidAddOnNonEmptyLedger ==
    [][(last'.op = "add_bet" /\ last'.form_ok /\ data # <<>>) =>
        /\ last'.res = "ok"
        /\ Len(data') = Len(data) + 1
        /\ \E k \in 1..Len(data') :
               /\ IsReset(data'[k])
               /\ \A j \in 1..Len(data) :
                      NoSlip(data'[IF j < k THEN j ELSE j + 1]) = NoSlip(data[j])
        /\ db' = data']_vars

\* C10: a delete at index i removes exactly the wager at position i of the
\* ledger, the one numbered i + 1: the count drops by one, the remaining
\* wagers keep their fields other than slip_no and are numbered 1..N-1, and
\* the result is persisted.
C10_DeleteFrame ==
    [][(last'.op = "confirm_delete" /\ last'.res = "ok") =>
        /\ InRange(data, last'.sel)
        /\ data[last'.sel + 1].slip_no = last'.sel + 1
        /\ Len(data') = Len(data) - 1
        /\ \A j \in 1..Len(data') :
               /\ NoSlip(data'[j]) =
                      NoSlip(data[IF j <= last'.sel THEN j ELSE j + 1])
               /\ data'[j].slip_no = j
        /\ db' = data']_vars

\* the first of two wagers was deleted; the one left is numbered 1
C10_Witness ==
    /\ last.op = "confirm_delete"
    /\ last.res = "ok"
    /\ last.sel = 0
    /\ Len(data) = MaxBets - 1
    /\ data[1].slip_no = 1
    /\ db = data

\* C11: an outcome update, edit or delete whose index is not one of the
\* ledger (at or past its count, or any index on the empty ledger) does not
\* succeed, and leaves the in-memory ledger and the persisted wagers as they
\* were.
C11_MissingIndexAborts ==
    [][(/\ last'.op \in {"update_outcome", "save_edit", "confirm_delete"}
        /\ last'.sel # NoSel
        /\ last'.sel >= Len(data)) =>
            /\ last'.res # "ok"
            /\ data' = data
            /\ db' = db]_vars

\* a delete at an index left over from a longer ledger raised, and the
\* wager the ledger holds is still there
C11_Witness ==
    /\ last.op = "confirm_delete"
    /\ last.sel = Len(data)
    /\ last.res = "exception"
    /\ data # <<>>
    /\ db = data

\* a Single form with its match, its prediction or its odds missing
MissingSingleField(f) ==
    /\ f.wager_type = "Single"
    /\ (f.match = "" \/ f.prediction = "" \/ f.odds_input = 0)

\* C12: an add or an edit of a Single wager with match, prediction or odds
\* missing fails as a validation error (when the stake is given and, for an
\* edit, the selected wager exists); no wager is added or changed, nothing
\* is persisted, and the ledger is what it was.
C12_MissingFieldValidation ==
    [][(/\ last'.op \in {"add_bet", "save_edit"}
        /\ MissingSingleField(last'.form)) =>
            /\ data' = data
            /\ db' = db
            /\ (/\ last'.form.bet_amount # 0
                /\ (last'.op = "save_edit" => InRange(data, last'.sel)))
                   => last'.res = "missing_fields"]_vars

\* an edit of a stored wager with the match left empty was refused
C12_Witness ==
    /\ last.op = "save_edit"
    /\ last.form = FormNoMatch
    /\ InRange(data, last.sel)
    /\ last.res = "missing_fields"
    /\ db = data

\* the wager the last add or edit wrote: an add dated as the wagers before
\* it puts its wager last, an edit leaves its wager in place
Written == IF last.op = "add_bet" THEN data[Len(data)] ELSE data[last.sel + 1]

\* the last callback was an add or an edit of an accumulator form
AccumulatorSubmitted ==
    /\ last.op \in {"add_bet", "save_edit"}
    /\ last.form.wager_type = "Accumulator"

\* a line of at least 3 tokens whose last token is a positive number
PositiveOddsLine(words) ==
    /\ Len(words) >= 3
    /\ IsFloat(words[Len(words)])
    /\ FloatValue[words[Len(words)]] > 0

\* the selection a line stands for: the last token its odds, the one before
\* its prediction, the tokens before them its match
SelectionOf(words) ==
    [match      |-> JoinWords(SubSeq(words, 1, Len(words) - 2)),
     prediction |-> words[Len(words) - 1],
     odds       |-> FloatValue[words[Len(words)]]]

RECURSIVE PositiveOddsSelections(_)
\* the selections of the lines with positive odds, in the order of the text
PositiveOddsSelections(lines) ==
    IF lines = <<>> THEN <<>>
    ELSE (IF PositiveOddsLine(Head(lines)) THEN <<SelectionOf(Head(lines))>>
          ELSE <<>>) \o PositiveOddsSelections(Tail(lines))

\* C13 as stated: the selections an accumulator is stored with are those of
\* the lines of its text that have at least 3 tokens and a positive number
\* for last token (odds the last token, prediction the one before, match the
\* tokens before joined by single spaces); a line ending in zero or in a
\* negative number is not among them.
C13_OnlyPositiveOddsAccepted ==
    (AccumulatorSubmitted /\ last.res = "ok") =>
        Written.selections = PositiveOddsSelections(last.form.selections_text)

\* the lines of a text that are valid: at least 3 tokens, the last one a
\* positive number
ValidLines(lines) == SelectSeq(lines, PositiveOddsLine)

\* a line the parser reads: at least 3 tokens, the last one a number of
\* any sign
ReadableLine(words) == Len(words) >= 3 /\ IsFloat(words[Len(words)])

ReadableLines(lines) == SelectSeq(lines, ReadableLine)

\* the last step was an add or an edit that read the text of an
\* accumulator form: stake given, text given and, for an edit, a selected
\* wager that exists
TextRead ==
    /\ last'.op \in {"add_bet", "save_edit"}
    /\ last'.form.wager_type = "Accumulator"
    /\ last'.form.bet_amount # 0
    /\ last'.form.selections_text # <<>>
    /\ (last'.op = "save_edit" => InRange(data, last'.sel))

\* the step refused the text with the format error and changed nothing, if
\* lines is empty; otherwise it did not refuse the text, succeeded on a
\* ledger holding a wager, and on success stored and persisted the wager
\* with the selections of lines, in their order
ParsedAs(lines) ==
    LET written == IF last'.op = "add_bet" THEN data'[Len(data')]
                   ELSE data'[last'.sel + 1]
    IN  IF lines = <<>>
        THEN /\ last'.res = "invalid_selections"
             /\ data' = data
             /\ db' = db
        ELSE /\ last'.res # "invalid_selections"
             /\ data # <<>> => last'.res = "ok"
             /\ last'.res = "ok" =>
                    /\ Len(written.selections) = Len(lines)
                    /\ \A i \in 1..Len(lines) :
                           written.selections[i] = SelectionOf(lines[i])
                    /\ db' = data'

\* C14 as stated: parsing an accumulator text skips the invalid lines
\* without failing and gives the selections of the valid lines in the order
\* of the text; when no line is valid the add or edit fails with the format
\* error and the ledger and the persisted wagers are unchanged.
C14_ParserSkipsInvalidLines ==
    [][TextRead => ParsedAs(ValidLines(last'.form.selections_text))]_vars

\* the same with the lines the parser reads (a last token that is a number
\* of any sign) in the place of the valid lines
C14_ParserSkipsUnreadableLines ==
    [][TextRead => ParsedAs(ReadableLines(last'.form.selections_text))]_vars

RECURSIVE ProductOfOdds(_)
\* the product of the odds of selections, each in hundredths
ProductOfOdds(selections) ==
    IF selections = <<>> THEN 1
    ELSE Head(selections).odds * ProductOfOdds(Tail(selections))

RECURSIVE Hundreds(_)
\* 100 to the power n
Hundreds(n) == IF n = 0 THEN 1 ELSE 100 * Hundreds(n - 1)

\* the match an accumulator of n selections is shown with
AccumulatorMatch(n) ==
    CASE n = 1 -> "Accumulator (1 selections)"
      [] n = 2 -> "Accumulator (2 selections)"
      [] n = 3 -> "Accumulator (3 selections)"
      [] OTHER -> "Accumulator (more selections)"

\* C15: after any add or edit, the wager written has the type of the form,
\* and every wager of the ledger is well formed: an Accumulator has at least
\* one selection, odds equal to the product of the odds of its selections
\* (whatever the odds field of the form held), match "Accumulator (N
\* selections)" for its N selections and prediction "Accumulator Win"; a
\* Single has exactly one selection.
C15_WagerShape ==
    (last.op \in {"add_bet", "save_edit"} /\ last.res = "ok") =>
        /\ Written.wager_type = last.form.wager_type
        /\ \A w \in Rows(data) :
               IF w.wager_type = "Accumulator"
               THEN /\ Len(w.selections) >= 1
                    /\ w.odds * Hundreds(Len(w.selections)) =
                           100 * ProductOfOdds(w.selections)
                    /\ w.match = AccumulatorMatch(Len(w.selections))
                    /\ w.prediction = "Accumulator Win"
               ELSE Len(w.selections) = 1

\* an accumulator of two selections at 1.8 and 2.2 was written with odds
\* 3.96 from a form whose odds field held 2.0
C15_Witness ==
    /\ AccumulatorSubmitted
    /\ last.res = "ok"
    /\ last.form.odds_input = 200
    /\ Len(Written.selections) = 2
    /\ Written.odds = 396
    /\ Written.match = "Accumulator (2 selections)"

RECURSIVE ProfitOfFirst(_, _)
\* the sum of profit_loss over the first n wagers of df
ProfitOfFirst(df, n) ==
    IF n = 0 THEN 0 ELSE df[n].profit_loss + ProfitOfFirst(df, n - 1)

C17_RiskNeverBlocks ==
    [][last'.op = "add_bet" =>
        /\ (last'.form_ok /\ data # <<>>) => last'.res = "ok"
        /\ \A account \in RiskAccounts : \E now \in RiskDates :
               \E o \in {add_bet_outputs(data, last'.form, now, account)} :
                   /\ o.res = last'.res
                   /\ o.df = data'
                   /\ o.res = "ok" => db' = o.df]_vars

\* a bet flagged risky was added and persisted
C17_Witness ==
    /\ last.op = "add_bet"
    /\ last.warning
    /\ last.res = "ok"
    /\ Len(data) = MaxRiskBets
    /\ data[Len(data)].bet_amount = last.form.bet_amount
    /\ db = data

\* the payout of a stake at odds, to the nearest cent, is the result and
\* the profit of w, a win
WonAt(w, bet_amount, odds) ==
    /\ w.status = "Win"
    /\ IsRounded(w.result_amount, bet_amount * odds)
    /\ w.profit_loss = w.result_amount - bet_amount

\* w is a loss of the stake
LostAt(w, bet_amount) ==
    /\ w.status = "Loss"
    /\ w.result_amount = 0
    /\ w.profit_loss = 0 - bet_amount

\* C18: an edit that changes the fields of a wager and declares an outcome
\* stores the type, stake, prediction and odds of the form, and the outcome,
\* result_amount, profit_loss and status that the settlement rules give for
\* these new values; the declaration is judged by the type of the form (an
\* edit that succeeds on an accumulator form declared Win or Loss).
C18_EditSettlesNewFields ==
    (/\ last.op = "save_edit"
     /\ last.res = "ok"
     /\ last.outcome_input \notin {"", "Pending"}) =>
        LET f == last.form
            w == Addressed
            declared == last.outcome_input
        IN  /\ w.wager_type = f.wager_type
            /\ w.bet_amount = f.bet_amount
            /\ IF f.wager_type = "Single"
               THEN /\ w.prediction = f.prediction
                    /\ w.odds = f.odds_input
                    /\ CASE declared = "Win" ->
                                w.outcome = f.prediction
                                /\ WonAt(w, f.bet_amount, f.odds_input)
                         [] declared = "Loss" ->
                                w.outcome = "Loss" /\ LostAt(w, f.bet_amount)
                         [] declared \notin {"Win", "Loss"}
                            /\ declared = f.prediction ->
                                w.outcome = declared
                                /\ WonAt(w, f.bet_amount, f.odds_input)
                         [] OTHER ->
                                w.outcome = declared /\ LostAt(w, f.bet_amount)
               ELSE /\ declared \in {"Win", "Loss"}
                    /\ w.outcome = declared
                    /\ 100 * ProductOfOdds(w.selections) =
                           w.odds * Hundreds(Len(w.selections))
                    /\ Len(w.selections) = Len(ReadableLines(f.selections_text))
                    /\ IF declared = "Win" THEN WonAt(w, f.bet_amount, w.odds)
                       ELSE LostAt(w, f.bet_amount)

\* a wager lost at 20.00 on "Chelsea" was edited into 50.00 at 2.0 on
\* "Arsenal" and declared "Arsenal" in the same edit: it is won, 100.00
\* returned, 50.00 of profit
C18_Witness ==
    /\ last.op = "save_edit"
    /\ last.res = "ok"
    /\ last.prior = "Loss"
    /\ last.form = FormSingle
    /\ last.outcome_input = "Arsenal"
    /\ Addressed.status = "Win"
    /\ Addressed.result_amount = 10000
    /\ Addressed.profit_loss = 5000

\* two wagers with the same outcome, result_amount, profit_loss and status
SameSettlement(a, b) ==
    /\ a.outcome = b.outcome
    /\ a.result_amount = b.result_amount
    /\ a.profit_loss = b.profit_loss
    /\ a.status = b.status

\* two wagers equal in what settlement reads
EqualWagers(a, b) ==
    /\ a.wager_type = b.wager_type
    /\ a.bet_amount = b.bet_amount
    /\ a.odds = b.odds
    /\ a.prediction = b.prediction

\* C19: settlement is deterministic: the outcome, result_amount,
\* profit_loss and status an outcome update gave a wager are those the same
\* declaration gives every equal wager of the ledger, and the wager alone
\* in a ledger; those an edit gave are those the same form and declaration
\* give at every place of the ledger, and on the wager alone.
C19_SettlementDeterministic ==
    [][(last'.op \in {"update_outcome", "save_edit"} /\ last'.res = "ok") =>
        LET declared == last'.outcome_input
            i == last'.sel + 1
            settled_as(o, j) == o.res = "ok" /\ SameSettlement(o.df[j], data'[i])
        IN  IF last'.op = "update_outcome"
            THEN /\ settled_as(update_outcome_run(<<data[i]>>, declared, 0), 1)
                 /\ \A j \in 1..Len(data) :
                        EqualWagers(data[j], data[i]) =>
                            settled_as(update_outcome_run(data, declared, j - 1), j)
            ELSE /\ settled_as(save_edit_run(<<data[i]>>, last'.form, declared, 0), 1)
                 /\ \A j \in 1..Len(data) :
                        settled_as(save_edit_run(data, last'.form, declared, j - 1),
                                   j)]_vars

\* the second of two equal wagers was declared won after the first, and
\* the two are settled alike
C19_Witness ==
    /\ last.op = "update_outcome"
    /\ last.res = "ok"
    /\ last.sel = 1
    /\ Len(data) = 2
    /\ EqualWagers(data[1], data[2])
    /\ data[2].status = "Win"
    /\ SameSettlement(data[1], data[2])

\* the places of the ledger holding a wager with an outcome
SettledPlaces == {i \in 1..Len(data) : data[i].outcome # None}

\* the places of the ledger holding a wager that counts as a win
WonPlaces ==
    {i \in SettledPlaces :
        IF data[i].wager_type = "Single"
        THEN data[i].outcome = data[i].prediction
        ELSE data[i].outcome = "Win"}

LostPlaces == SettledPlaces \ WonPlaces

\* the settled places from i to j
SettledWithin(i, j) == {k \in SettledPlaces : i <= k /\ k <= j}

\* the longest run of settled wagers all in places: a run goes from a
\* settled place to a later one with no settled wager outside places
\* between them, the pending wagers between them not counted
LongestRun(places) ==
    LET runs == {Cardinality(SettledWithin(i, j)) :
                    <<i, j>> \in {p \in places \X places :
                                    /\ p[1] <= p[2]
                                    /\ SettledWithin(p[1], p[2]) \subseteq places}}
    IN  IF runs = {} THEN 0 ELSE CHOOSE m \in runs : \A x \in runs : x <= m

\* C21: the ledger is in ascending order of date, and of its settled
\* wagers taken in that order max_win_streak is the length of the longest
\* run of consecutive wins and max_loss_streak that of the longest run of
\* consecutive losses; pending wagers are left out and break no run; both
\* are 0 when no wager is settled.  The results W,W,L,W,W,W,L,L give 3 and 2.
C21_Streaks ==
    /\ \A i, j \in 1..Len(data) : i <= j => data[i].date <= data[j].date
    /\ get_streaks(data) = <<LongestRun(WonPlaces), LongestRun(LostPlaces)>>
    /\ SettledPlaces = {} => get_streaks(data) = <<0, 0>>
    /\ \E rows \in {streaks(<<1, 1, 0, 1, 1, 1, 0, 0>>)} :
           max_length(rows, 1) = 3 /\ max_length(rows, 0) = 2

\* two wins around a pending wager make a run of two
C21_Witness ==
    /\ Len(data) = 3
    /\ data[1].status = "Win"
    /\ data[2].status = "Pending"
    /\ data[3].status = "Win"
    /\ get_streaks(data) = <<2, 0>>

\* a loss between two wins: no run longer than one
C21_WitnessBroken ==
    /\ Len(data) = 3
    /\ data[1].status = "Win"
    /\ data[2].status = "Loss"
    /\ data[3].status = "Win"
    /\ get_streaks(data) = <<1, 1>>

\* C22: a confirmed deletion of an account removes the row of the account
\* from table accounts and every wager persisted under its id, and leaves
\* the rows of the other accounts and the wagers persisted under every
\* other id as they were.
C22_DeleteAccountCascade ==
    [][(last'.op = "confirm_delete_account" /\ last'.res = "deleted") =>
          /\ ~\E r \in accounts_table' : r.id = last'.account_id
          /\ db'[last'.account_id] = <<>>
          /\ accounts_table' = {r \in accounts_table : r.id # last'.account_id}
          /\ \A a \in DOMAIN db : a # last'.account_id => db'[a] = db[a]]_vars

\* the default account was deleted with the wager it had, and the savings
\* account keeps its row and its wager
C22_Witness ==
    /\ last.op = "confirm_delete_account"
    /\ last.res = "deleted"
    /\ last.account_id = default_account.id
    /\ last.persisted > 0
    /\ db[default_account.id] = <<>>
    /\ db[savings_account.id] = <<SavingsBet>>
    /\ savings_account \in accounts_table

\* the last callback was an add, edit, outcome update or delete that went
\* through to its save
Mutated ==
    /\ last.op \in {"add_bet", "save_edit", "update_outcome", "confirm_delete"}
    /\ last.res = "ok"

\* C23: after an add, edit, outcome update or delete whose save is
\* committed, the persisted ledger of the account is the whole ledger the
\* callback returned to the store, whatever was persisted before; when the
\* save fails, at the DELETE or after it, the persisted ledger is what it
\* was before the callback.
C23_FullReplaceOrIntact ==
    [][Mutated' =>
          IF last'.failure = "none"
          THEN db' = data'
          ELSE db' = db]_vars

\* a save committed after one that failed: the database was behind the
\* store, and now holds the whole ledger of two wagers, the first one settled
C23_Witness ==
    /\ Mutated
    /\ last.op = "add_bet"
    /\ last.failure = "none"
    /\ last.behind
    /\ Len(data) = 2
    /\ data[1].status = "Win"
    /\ db = data

\* a save that failed after its DELETE: the wager persisted before is
\* still there, and the store is ahead
C23_WitnessFailed ==
    /\ Mutated
    /\ last.failure = "insert"
    /\ db = <<SeedBet>>
    /\ data # db

\* the slip numbers of a ledger are 1..N
SlipsNumbered(df) == {df[i].slip_no : i \in 1..Len(df)} = 1..Len(df)

\* C24: when two sessions each hold a snapshot of the ledger of the account
\* and each makes a mutation, the persisted ledger after every save is the
\* ledger of the session that saved last, and its slip numbers are 1..N.
C24_LastWriterWins ==
    [][last'.op = "save_data" =>
          /\ db' = last'.df
          /\ Len(db') = Cardinality({db'[i].slip_no : i \in 1..Len(db')})
          /\ SlipsNumbered(db')]_vars

\* C24, for a save that no other save committed over: the persisted
\* ledger is the ledger of the session that saved last, whatever the other
\* session had persisted, and its slip numbers are 1..N
C24_SerialLastWriterWins ==
    [][(last'.op = "save_data" /\ ~last'.overlapped) =>
          /\ db' = last'.df
          /\ SlipsNumbered(db')]_vars

\* both sessions added a wager to the seed, one save after the other: the
\* wager of the first is no longer persisted
C24_SerialWitness ==
    /\ last.op = "save_data"
    /\ ~last.overlapped
    /\ Len(data) = 2 /\ Len(data2) = 2
    /\ data # data2
    /\ db = last.df
    /\ \E s \in Sessions : s # last.session /\ store(s) # db

\* two saves overlapped: the rows of both ledgers are persisted
C24_OverlapWitness ==
    /\ last.op = "save_data"
    /\ last.overlapped
    /\ Len(db) > Len(last.df)
    /\ ~SlipsNumbered(db)

\* the names of a list of accounts are pairwise different
UniqueNames(accounts) ==
    \A i, j \in 1..Len(accounts) : i # j => accounts[i].name # accounts[j].name

\* C25: no two accounts of the account list share a name, and adding an
\* account under a name the list holds adds no entry and gives the entry of
\* that name the initial_bankroll and max_bet_percent entered.
C25_UniqueAccountNames ==
    [][/\ UniqueNames(accounts_store')
       /\ (/\ last'.op = "add_account"
           /\ \E i \in 1..Len(accounts_store) : accounts_store[i].name = last'.name)
          => /\ Len(accounts_store') = Len(accounts_store)
             /\ \A i \in 1..Len(accounts_store') :
                   accounts_store'[i].name = last'.name =>
                       /\ accounts_store'[i].id = accounts_store[i].id
                       /\ accounts_store'[i].initial_bankroll = last'.account.initial_bankroll
                       /\ accounts_store'[i].max_bet_percent = last'.account.max_bet_percent]_vars

\* C25, of table accounts: no two rows share a name, and adding an account
\* under a name the table holds adds no row and gives the row of that name,
\* its id kept, the initial_bankroll and max_bet_percent entered
C25_UniqueNamesInTable ==
    [][/\ \A r, q \in accounts_table' : r.name = q.name => r = q
       /\ (last'.op = "add_account" /\ last'.name \in last'.names_before)
          => /\ {r.id : r \in accounts_table'} = {r.id : r \in accounts_table}
             /\ \A r \in accounts_table' :
                   r.name = last'.name =>
                       /\ r.initial_bankroll = last'.account.initial_bankroll
                       /\ r.max_bet_percent = last'.account.max_bet_percent]_vars

\* an account was added under the name of the savings account: the store
\* lists two accounts of that name, the table one with the new settings
C25_DuplicateWitness ==
    /\ last.op = "add_account"
    /\ last.name = savings_account.name
    /\ ~UniqueNames(accounts_store)
    /\ \E r \in accounts_table :
           /\ r.id = savings_account.id
           /\ r.initial_bankroll = last.account.initial_bankroll
    /\ ~\E r \in accounts_table : r.id = last.account.id

\* the settled places of the ledger dated in a month, and on a day of it
PlacesOfMonth(month) ==
    {i \in SettledPlaces : month_year(data[i].date) = month}

PlacesOfDay(month, d) ==
    {i \in PlacesOfMonth(month) : day(data[i].date) = d}

RECURSIVE ProfitOfPlaces(_)
\* the sum of profit_loss over places of the ledger
ProfitOfPlaces(places) ==
    IF places = {} THEN 0
    ELSE LET i == CHOOSE p \in places : TRUE
         IN  data[i].profit_loss + ProfitOfPlaces(places \ {i})

\* the months that hold a settled wager
SettledMonths == {month_year(data[i].date) : i \in SettledPlaces}

\* C26: the calendar matrix has one row for each year-month that holds a
\* settled wager, in ascending order of month; each row has 31 entries, for
\* the days 1..31, entry d the sum of profit_loss of the settled wagers of
\* the month dated on day d, 0 when there is none; pending wagers give no
\* row and add to no entry.
C26_CalendarMatrix ==
    \E c \in {calendar(data)} :
        /\ Len(c.matrix) = Cardinality(SettledMonths)
        /\ Len(c.month_labels) = Len(c.matrix)
        /\ {c.month_labels[m] : m \in 1..Len(c.month_labels)} = SettledMonths
        /\ \A m, n \in 1..Len(c.month_labels) :
               m < n => label_before(c.month_labels[m], c.month_labels[n])
        /\ \A m \in 1..Len(c.matrix) :
               /\ DOMAIN c.matrix[m] = 1..31
               /\ \A d \in 1..31 :
                      c.matrix[m][d] = ProfitOfPlaces(PlacesOfDay(c.month_labels[m], d))

\* a loss on 31 January, a win on 1 February and a pending wager on 15
\* February: two rows, January before February, -50.00 on day 31 of the
\* first and +50.00 on day 1 of the second, nothing on day 15
C26_Witness ==
    /\ Len(data) = 3
    /\ data[1].date = 20240131 /\ data[1].status = "Loss"
    /\ data[2].date = 20240201 /\ data[2].status = "Win"
    /\ data[3].date = 20240215 /\ data[3].status = "Pending"
    /\ calendar(data).month_labels = <<<<2024, 1>>, <<2024, 2>>>>
    /\ calendar(data).matrix[1][31] = -5000
    /\ calendar(data).matrix[2][1] = 5000
    /\ calendar(data).matrix[2][15] = 0

\* two settled wagers of one day are summed in one entry
C26_WitnessSameDay ==
    /\ Len(data) = 3
    /\ data[2].date = 20240201 /\ data[2].status = "Win"
    /\ data[3].date = 20240201 /\ data[3].status = "Win"
    /\ \E m \in 1..Len(calendar(data).matrix) :
           /\ calendar(data).month_labels[m] = <<2024, 2>>
           /\ calendar(data).matrix[m][1] = 10000

\* C27: in every ledger, a settled wager is counted as a win by the
\* analytics exactly when its stored status is Win, and as a loss exactly
\* when its stored status is Loss, whatever its prediction string.
C27_WinMatchesStatus ==
    \A i \in 1..Len(data) :
        data[i].outcome # None =>
            /\ is_win(data[i]) <=> data[i].status = "Win"
            /\ ~is_win(data[i]) <=> data[i].status = "Loss"

\* C27, for the Singles whose prediction is not the word Loss and for the
\* Accumulators
C27_WinMatchesStatusOtherwise ==
    \A i \in 1..Len(data) :
        (data[i].outcome # None /\ data[i].prediction # "Loss") =>
            /\ is_win(data[i]) <=> data[i].status = "Win"
            /\ ~is_win(data[i]) <=> data[i].status = "Loss"

\* a Single predicting "Loss" was declared lost: its status is Loss, its
\* stake is lost, and the analytics count it as a win
C27_LossCountedAsWin ==
    /\ Len(data) = 1
    /\ data[1].wager_type = "Single"
    /\ data[1].prediction = "Loss"
    /\ data[1].status = "Loss"
    /\ data[1].profit_loss < 0
    /\ is_win(data[1])
    /\ summary(data).wins = 1
    /\ get_streaks(data) = <<1, 0>>

\* the last callback was an add, edit, outcome update or delete of a wager
BetMutation ==
    last.op \in {"add_bet", "save_edit", "update_outcome", "confirm_delete"}

\* C28: the data-store holds the ledger of the account the dropdown shows,
\* loaded by load_current_account and changed by the ledger callbacks; an
\* add, edit, outcome update or delete persists it under that account: it
\* changes the persisted wagers of no other account.
C28_SavedUnderOwnAccount ==
    [][BetMutation' =>
          \A a \in DOMAIN db : a # account_dropdown => db'[a] = db[a]]_vars

\* C28, while the current-account-store holds the id the dropdown shows
C28_SavedUnderCurrentAccount ==
    [][BetMutation' =>
          \A a \in DOMAIN db : a # current_account_store => db'[a] = db[a]]_vars

\* the ledger of the savings account, shown in the dropdown, was saved with
\* a new wager under the default account, whose own wager is gone
C28_OverwrittenWitness ==
    /\ BetMutation
    /\ last.op = "add_bet"
    /\ last.res = "ok"
    /\ account_dropdown = savings_account.id
    /\ last.account_id = default_account.id
    /\ db[default_account.id] = data
    /\ data[1] = SavingsBet
    /\ \A i \in 1..Len(db[default_account.id]) : db[default_account.id][i] # SeedBet

\* C29: saving the edit form of a Single as open_edit_modal filled it
\* changes nothing: the edit goes through and every field of every wager,
\* in the store and in the database, is the same afterwards.
C29_PrefilledEditIsNoOp ==
    [][(last'.op = "save_edit" /\ last'.wager_type = "Single") =>
          /\ last'.res = "ok"
          /\ data' = data
          /\ db' = db]_vars

\* C29, for the Singles whose prediction is none of the words Win, Loss
\* and Pending, and for the Accumulators
C29_PrefilledEditIsNoOpOtherwise ==
    [][(/\ last'.op = "save_edit"
        /\ last'.form.prediction \notin {"Win", "Loss", "Pending"}) =>
          /\ last'.res = "ok"
          /\ data' = data
          /\ db' = db]_vars

\* a won Single predicting a team was saved as filled, next to another
\* wager, and is still won
C29_WitnessOtherwise ==
    /\ last.op = "save_edit"
    /\ last.res = "ok"
    /\ last.prior = "Win"
    /\ last.form.prediction = "Arsenal"
    /\ Len(data) = 2
    /\ data[last.sel + 1].status = "Win"

\* a won Single predicting "Loss" was saved as filled and is now lost
C29_WonTurnedLost ==
    /\ last.op = "save_edit"
    /\ last.res = "ok"
    /\ last.prior = "Win"
    /\ last.form.prediction = "Loss"
    /\ data[last.sel + 1].status = "Loss"
    /\ data[last.sel + 1].profit_loss < 0

\* C30: after a confirmed deletion the deleted account is not in the
\* account list and is not the current account: the current account is an
\* account of table accounts, or none.
C30_DeletedAccountGone ==
    [][(last'.op = "confirm_delete_account" /\ last'.res = "deleted") =>
          /\ last'.account_id \notin StoreIds(accounts_store')
          /\ current_account_store' # last'.account_id
          /\ \/ current_account_store' = None
             \/ \E r \in accounts_table' : r.id = current_account_store']_vars

\* the first account of the list was deleted: it is still listed, and it is
\* the current account, with no row in table accounts
C30_DeletedStillCurrent ==
    /\ last.op = "confirm_delete_account"
    /\ last.res = "deleted"
    /\ current_account_store = last.account_id
    /\ last.account_id \in StoreIds(accounts_store)
    /\ ~\E r \in accounts_table : r.id = last.account_id

====
